---- MODULE Spec2Model ----
(***************************************************************************)
(* The secret engines of centry-core/shared: the engine base class with    *)
(* its filesystem, database and mock drivers (tools/secret_engines) and    *)
(* the Vault client (tools/vault_tools.py).                                *)
(*                                                                         *)
(* Facades are request scoped: one facade instance is live at a time,      *)
(* bound to a tenant, and Construct replaces it by a freshly constructed   *)
(* one.  The space of another tenant is created and removed through a      *)
(* facade built for that one call.  Python dict objects are modelled with  *)
(* their identity: every reference (a cache entry of the facade, the map   *)
(* the caller holds) is a slot of the heap, and slots that refer to the    *)
(* same dict object share one alias class.                                 *)
(***************************************************************************)
EXTENDS Integers, Sequences, FiniteSets, TLC

\* Identifiers the random generators hand out during one behaviour
\* (Fernet.generate_key, the broker's role ids and secret ids).
MaxFresh == 4

\* Calls made on the facades during one behaviour.
MaxOps == 5

\* Calls of unsecret made during one behaviour.
MaxUnsecret == 2

\* Secret names and values the callers use.
Names == {"n"}
Values == {"a", "b"}

Admin == "administration"
Projects == {"p1"}
Tenants == {Admin} \cup Projects

Drivers == {"mock", "filesystem", "database", "vault"}

\* The two buckets a tenant stores, and the three cache entries of a facade.
BucketKinds == {"secrets", "hidden_secrets"}
CacheKinds == {"secrets", "hidden_secrets", "shared_secrets"}

Bucket == UNION {[D -> Values] : D \in SUBSET Names}
EmptyBucket == [x \in {} |-> "a"]

\* dict.update
DictUpdate(a, b) ==
  [x \in (DOMAIN a) \cup (DOMAIN b) |-> IF x \in DOMAIN b THEN b[x] ELSE a[x]]

(***************************************************************************)
(* json.dumps / json.loads of a blob {"secrets": .., "hidden_secrets": ..} *)
(* The text of an object is its set of name/value members.                 *)
(***************************************************************************)
JsonObject(m) == {<<x, m[x]>> : x \in DOMAIN m}
JsonDict(ps) == [x \in {p[1] : p \in ps} |-> (CHOOSE p \in ps : p[1] = x)[2]]
JsonDumps(data) ==
  [json |-> [secrets |-> JsonObject(data.secrets),
             hidden_secrets |-> JsonObject(data.hidden_secrets)]]
JsonLoads(text) ==
  [secrets |-> JsonDict(text.json.secrets),
   hidden_secrets |-> JsonDict(text.json.hidden_secrets)]

(***************************************************************************)
(* Fernet.  A key is <<"key", i>> for the i-th generated key, or the       *)
(* configured master key.  Byte strings are records: a plain byte string   *)
(* or a token that only the encrypting key opens.                          *)
(***************************************************************************)
NoMaster == <<"none", 0>>
MasterKey == <<"master", 0>>
GenKey(i) == <<"key", i>>
NoKey == <<"nokey", 0>>

PlainBytes(body) == [kind |-> "plain", key |-> NoKey, body |-> body]
FernetEncrypt(key, body) == [kind |-> "token", key |-> key, body |-> body]
FernetDecrypt(key, bytes) ==
  IF bytes.kind = "token" /\ bytes.key = key
  THEN [ok |-> TRUE, body |-> bytes.body]
  ELSE [ok |-> FALSE, body |-> [none |-> TRUE]]
RawKey(key) == [rawkey |-> key]

Absent == [present |-> FALSE]
File(bytes) == [present |-> TRUE, data |-> bytes]

VARIABLES
  driver,       \* c.SECRETS_ENGINE: the engine the process is configured with
  master_key,   \* c.SECRETS_MASTER_KEY (NoMaster when not configured)
  keys,         \* key file (filesystem) / secrets_key row (database) per tenant
  blobs,        \* secrets file / secrets_data row / mock json file per tenant
  mounts,       \* Vault: the KV mounts, each absent or holding project-secrets
  roles,        \* Vault: the AppRole of each tenant
  policies,     \* Vault: the policy of each tenant
  projectAuth,  \* project.secrets_json: the credential pair the caller persisted
  fresh,        \* number of identifiers generated so far
  bound,        \* the tenant the live facade was constructed for
  heap,         \* dict objects behind the facade's caches and the caller's map
  fac,          \* self.auth and the token of self._client (Vault)
  used,         \* self.track_used_secrets and self.used_secrets
  ret,          \* the last call: operation, tenant, outcome
  ops,          \* number of calls made so far
  unsec,        \* the last unsecret call: its value, the map used, its outcome
  hist,         \* history: what the properties need to remember of earlier calls
  boot,         \* Vault: the row of unseal keys, and the broker they belong to
  field,        \* the live SecretString: its attributes
  proc          \* the processes at work side by side: where each is, what it holds

vars == <<driver, master_key, keys, blobs, mounts, roles, policies, projectAuth,
          fresh, bound, heap, fac, used, ret, ops, unsec, hist, boot, field,
          proc>>

(***************************************************************************)
(* Heap of dict objects.  heap[s].v is the value of the object slot s      *)
(* refers to, heap[s].c the set of slots referring to that same object.    *)
(***************************************************************************)
Caller == "caller"
\* a local variable of a method, which refers to no object between calls
Local == "local"
Slots == CacheKinds \cup {Caller, Local}

\* slot s refers to a new object of value m
New(h, s, m) ==
  [x \in Slots |-> IF x = s THEN [v |-> m, c |-> {s}]
                   ELSE [v |-> h[x].v, c |-> h[x].c \ {s}]]

\* slot s refers to the object slot t refers to (s = t in Python)
Bind(h, s, t) ==
  IF s \in h[t].c THEN h
  ELSE LET cls == h[t].c \cup {s} IN
       [x \in Slots |-> IF x \in cls THEN [v |-> h[t].v, c |-> cls]
                        ELSE [v |-> h[x].v, c |-> h[x].c \ {s}]]

\* the object slot s refers to is changed in place to value m
Mutate(h, s, m) ==
  [x \in Slots |-> IF x \in h[s].c THEN [v |-> m, c |-> h[x].c] ELSE h[x]]

\* self._cache of a freshly constructed facade: three new empty dicts
FreshCache(h) ==
  New(New(New(h, "secrets", EmptyBucket), "hidden_secrets", EmptyBucket),
      "shared_secrets", EmptyBucket)

NoData == [secrets |-> EmptyBucket, hidden_secrets |-> EmptyBucket]

(***************************************************************************)
(* Filesystem driver: the key_storage and secrets_storage files.           *)
(***************************************************************************)
\* the bytes _write_key stores for a key
FsWriteKey(key) ==
  IF master_key = NoMaster THEN File(PlainBytes(RawKey(key)))
  ELSE File(FernetEncrypt(master_key, RawKey(key)))

\* _read_key on key file kf: [ok, key].  open() fails on an absent file,
\* decrypt() when the master key does not open the bytes, and without a
\* master key the bytes are the key, which Fernet(key) rejects when they
\* are a token
FsReadKey(kf) ==
  IF ~kf.present THEN [ok |-> FALSE, key |-> NoKey]
  ELSE IF master_key # NoMaster
       THEN LET d == FernetDecrypt(master_key, kf.data) IN
            IF d.ok THEN [ok |-> TRUE, key |-> d.body.rawkey]
            ELSE [ok |-> FALSE, key |-> NoKey]
       ELSE IF kf.data.kind = "plain"
            THEN [ok |-> TRUE, key |-> kf.data.body.rawkey]
            ELSE [ok |-> FALSE, key |-> NoKey]

\* _write: [ok, file], the secrets file it leaves
FsWrite(kf, data) ==
  LET k == FsReadKey(kf) IN
  IF k.ok THEN [ok |-> TRUE, file |-> File(FernetEncrypt(k.key, JsonDumps(data)))]
  ELSE [ok |-> FALSE, file |-> Absent]

\* _read: [ok, data]
FsRead(kf, sf) ==
  LET k == FsReadKey(kf) IN
  IF ~k.ok \/ ~sf.present THEN [ok |-> FALSE, data |-> NoData]
  ELSE LET d == FernetDecrypt(k.key, sf.data) IN
       IF d.ok THEN [ok |-> TRUE, data |-> JsonLoads(d.body)]
       ELSE [ok |-> FALSE, data |-> NoData]

\* a create_project_space that writes a new key whether or not one exists
FsCreateRekey(t) ==
  LET kf == FsWriteKey(GenKey(fresh + 1)) IN
  IF blobs[t].present
  THEN [err |-> FALSE, key |-> kf, blob |-> blobs[t], fresh |-> fresh + 1]
  ELSE [err |-> FALSE, key |-> kf, blob |-> FsWrite(kf, NoData).file,
        fresh |-> fresh + 1]

\* create_project_space: [err, key, blob, fresh]
FsCreate(t) ==
  LET gen == ~keys[t].present  \* not os.path.exists(self.key_storage)
      kf == IF gen THEN FsWriteKey(GenKey(fresh + 1)) ELSE keys[t]
      n == IF gen THEN fresh + 1 ELSE fresh
  IN IF blobs[t].present
     THEN [err |-> FALSE, key |-> kf, blob |-> blobs[t], fresh |-> n]
     ELSE LET w == FsWrite(kf, NoData) IN
          IF w.ok THEN [err |-> FALSE, key |-> kf, blob |-> w.file, fresh |-> n]
          ELSE [err |-> TRUE, key |-> kf, blob |-> blobs[t], fresh |-> n]

\* a remove_project_space that calls os.remove without asking os.path.exists
FsRemoveUnchecked(t) ==
  [err |-> ~keys[t].present \/ ~blobs[t].present, key |-> Absent,
   blob |-> IF keys[t].present THEN Absent ELSE blobs[t]]

\* remove_project_space: [err, key, blob]
FsRemove(t) ==
  [err |-> FALSE,
   key |-> IF keys[t].present THEN Absent ELSE keys[t],
   blob |-> IF blobs[t].present THEN Absent ELSE blobs[t]]

(***************************************************************************)
(* Database driver: the secrets_key and secrets_data rows of db_key.       *)
(***************************************************************************)
\* the row data _write_key commits
DbWriteKey(key) ==
  IF master_key = NoMaster THEN File(PlainBytes(RawKey(key)))
  ELSE File(FernetEncrypt(master_key, RawKey(key)))

\* _read_key: session.query(SecretsKey).get(..).data fails on a missing row
DbReadKey(krow) ==
  IF ~krow.present THEN [ok |-> FALSE, key |-> NoKey]
  ELSE IF master_key # NoMaster
       THEN LET d == FernetDecrypt(master_key, krow.data) IN
            IF d.ok THEN [ok |-> TRUE, key |-> d.body.rawkey]
            ELSE [ok |-> FALSE, key |-> NoKey]
       ELSE IF krow.data.kind = "plain"
            THEN [ok |-> TRUE, key |-> krow.data.body.rawkey]
            ELSE [ok |-> FALSE, key |-> NoKey]

\* _write: insert or update of the data row
DbWrite(krow, data) ==
  LET k == DbReadKey(krow) IN
  IF k.ok THEN [ok |-> TRUE, file |-> File(FernetEncrypt(k.key, JsonDumps(data)))]
  ELSE [ok |-> FALSE, file |-> Absent]

DbRead(krow, drow) ==
  LET k == DbReadKey(krow) IN
  IF ~k.ok \/ ~drow.present THEN [ok |-> FALSE, data |-> NoData]
  ELSE LET d == FernetDecrypt(k.key, drow.data) IN
       IF d.ok THEN [ok |-> TRUE, data |-> JsonLoads(d.body)]
       ELSE [ok |-> FALSE, data |-> NoData]

DbCreate(t) ==
  LET gen == ~keys[t].present  \* key_obj is None
      krow == IF gen THEN DbWriteKey(GenKey(fresh + 1)) ELSE keys[t]
      n == IF gen THEN fresh + 1 ELSE fresh
  IN IF blobs[t].present     \* data_obj is not None
     THEN [err |-> FALSE, key |-> krow, blob |-> blobs[t], fresh |-> n]
     ELSE LET w == DbWrite(krow, NoData) IN
          IF w.ok THEN [err |-> FALSE, key |-> krow, blob |-> w.file, fresh |-> n]
          ELSE [err |-> TRUE, key |-> krow, blob |-> blobs[t], fresh |-> n]

DbRemove(t) ==
  [err |-> FALSE,
   key |-> IF keys[t].present THEN Absent ELSE keys[t],
   blob |-> IF blobs[t].present THEN Absent ELSE blobs[t]]

(***************************************************************************)
(* Mock driver: one plain json file per tenant.                            *)
(***************************************************************************)
MockWrite(data) == [ok |-> TRUE, file |-> File(PlainBytes(JsonDumps(data)))]

MockRead(sf) ==
  IF sf.present /\ sf.data.kind = "plain"
  THEN [ok |-> TRUE, data |-> JsonLoads(sf.data.body)]
  ELSE [ok |-> FALSE, data |-> NoData]

MockCreate(t) ==
  [err |-> FALSE, key |-> keys[t], fresh |-> fresh,
   blob |-> IF blobs[t].present THEN blobs[t] ELSE MockWrite(NoData).file]

MockRemove(t) ==
  [err |-> FALSE, key |-> keys[t],
   blob |-> IF blobs[t].present THEN Absent ELSE blobs[t]]

(***************************************************************************)
(* The driver the facade is configured with (c.SECRETS_ENGINE).            *)
(***************************************************************************)
\* self._read() of the facade of tenant t, on secrets file / row sf
Read(t, sf) ==
  CASE driver = "filesystem" -> FsRead(keys[t], sf)
    [] driver = "database" -> DbRead(keys[t], sf)
    [] OTHER -> MockRead(sf)

\* self._write(data)
Write(t, data) ==
  CASE driver = "filesystem" -> FsWrite(keys[t], data)
    [] driver = "database" -> DbWrite(keys[t], data)
    [] OTHER -> MockWrite(data)

(***************************************************************************)
(* EngineBase (and the mock engine, which repeats the same code): the      *)
(* facade operations over _read / _write, for the facade of tenant t.      *)
(* Each returns the heap it leaves and whether it raised; what was         *)
(* assigned before a raise stays assigned.                                 *)
(***************************************************************************)
\* a set_* that updates the stored bucket with the argument, data[k].update
BaseSetMerge(h, t, k) ==
  LET rd == Read(t, blobs[t]) IN
  IF ~rd.ok THEN [err |-> TRUE, blob |-> blobs[t], heap |-> h]
  ELSE LET data == [rd.data EXCEPT ![k] = DictUpdate(@, h[Caller].v)]
           w == Write(t, data)
       IN IF ~w.ok THEN [err |-> TRUE, blob |-> blobs[t], heap |-> h]
          ELSE [err |-> FALSE, blob |-> w.file, heap |-> Bind(h, k, Caller)]

\* set_secrets (k = "secrets") / set_hidden_secrets (k = "hidden_secrets"),
\* the argument being the dict the caller holds: [err, blob, heap]
BaseSet(h, t, k) ==
  LET rd == Read(t, blobs[t]) IN
  IF ~rd.ok THEN [err |-> TRUE, blob |-> blobs[t], heap |-> h]
  ELSE LET data == [rd.data EXCEPT ![k] = h[Caller].v]
           w == Write(t, data)
       IN IF ~w.ok THEN [err |-> TRUE, blob |-> blobs[t], heap |-> h]
          ELSE [err |-> FALSE, blob |-> w.file, heap |-> Bind(h, k, Caller)]

\* a cache fill that takes data["secrets"] for either bucket
BaseFillVisible(h, t, k) ==
  IF h[k].v # EmptyBucket
  THEN [err |-> FALSE, heap |-> h, read |-> {}]
  ELSE LET rd == Read(t, blobs[t]) IN
       IF ~rd.ok THEN [err |-> TRUE, heap |-> h, read |-> {k}]
       ELSE [err |-> FALSE, heap |-> New(h, k, rd.data.secrets), read |-> {k}]

\* a cache fill that takes a store it cannot read for an empty one
BaseFillLenient(h, t, k) ==
  IF h[k].v # EmptyBucket
  THEN [err |-> FALSE, heap |-> h, read |-> {}]
  ELSE LET rd == Read(t, blobs[t]) IN
       [err |-> FALSE, heap |-> New(h, k, rd.data[k]), read |-> {k}]

\* the cache fill of get_secrets / get_hidden_secrets: [err, heap, read],
\* read being the buckets fetched from the driver
BaseFill(h, t, k) ==
  IF h[k].v # EmptyBucket      \* `if not self._cache[k]` is false
  THEN [err |-> FALSE, heap |-> h, read |-> {}]
  ELSE LET rd == Read(t, blobs[t]) IN
       IF ~rd.ok THEN [err |-> TRUE, heap |-> h, read |-> {k}]
       ELSE [err |-> FALSE, heap |-> New(h, k, rd.data[k]), read |-> {k}]

\* get_secrets / get_hidden_secrets: the caller receives a copy
BaseGet(h, t, k) ==
  LET f == BaseFill(h, t, k) IN
  IF f.err THEN [err |-> TRUE, heap |-> f.heap, read |-> f.read]
  ELSE [err |-> FALSE, heap |-> New(f.heap, Caller, f.heap[k].v), read |-> f.read]

\* get_all_secrets: the shared layer comes from a second facade of the
\* administration tenant, self.__class__().get_secrets()
BaseGetAll(h, t) ==
  LET sh == "shared_secrets"
      fill == h[sh].v = EmptyBucket
      rd == Read(Admin, blobs[Admin])
  IN IF fill /\ ~rd.ok
     THEN [err |-> TRUE, heap |-> h, read |-> {sh}]
     ELSE LET h1 == IF fill THEN New(h, sh, rd.data.secrets) ELSE h
              r1 == IF fill THEN {sh} ELSE {}
              g1 == BaseGet(h1, t, "hidden_secrets")
          IN IF g1.err
             THEN [err |-> TRUE, heap |-> g1.heap, read |-> r1 \cup g1.read]
             ELSE LET all1 == DictUpdate(h1[sh].v, g1.heap[Caller].v)
                      g2 == BaseGet(g1.heap, t, "secrets")
                  IN IF g2.err
                     THEN [err |-> TRUE, heap |-> g2.heap,
                           read |-> r1 \cup g1.read \cup g2.read]
                     ELSE [err |-> FALSE,
                           heap |-> New(g2.heap, Caller, DictUpdate(all1, g2.heap[Caller].v)),
                           read |-> r1 \cup g1.read \cup g2.read]

(***************************************************************************)
(* The Vault broker as the client uses it, initialized, unsealed and with  *)
(* the AppRole auth method enabled.                                        *)
(***************************************************************************)
\* Names are strs made by f-strings: a str is the sequence of its pieces,
\* the fixed prefixes and the characters of the tenant's name.
\* str(project.id) of the projects, ids being the integers the database gives
ProjectIds == [p1 |-> <<"1">>, p2 |-> <<"2">>, p12 |-> <<"1", "2">>]

\* self.vault_name, as the f-strings format it
VaultName(t) == IF t = Admin THEN <<"administration">> ELSE ProjectIds[t]

KvMount(t) == <<"kv-for-">> \o VaultName(t)                  \* self.kv_mount
HiddenKvMount(t) == <<"kv-for-", "hidden-">> \o VaultName(t) \* self.hidden_kv_mount
ApproleName(t) == <<"role-for-">> \o VaultName(t)            \* self.approle_name
PolicyName(t) == <<"policy-for-">> \o VaultName(t)           \* self.policy_name
MountNames == {KvMount(t) : t \in Tenants} \cup {HiddenKvMount(t) : t \in Tenants}
MountOf(t, k) == IF k = "secrets" THEN KvMount(t) ELSE HiddenKvMount(t)
Mounted(m) == [present |-> TRUE, data |-> m]

AllCaps == {"create", "read", "update", "delete", "list"}

\* a policy that leaves the capabilities on the administration mount at
\* _make_policy's default
PolicyForWide(t) ==
  {[path |-> <<"auth", "approle/login">>, caps |-> {"create", "read"}],
   [path |-> <<"auth", "carrier-approle/login">>, caps |-> {"create", "read"}],
   [path |-> KvMount(t), caps |-> AllCaps],
   [path |-> HiddenKvMount(t), caps |-> AllCaps]}
  \cup (IF t # Admin
        THEN {[path |-> KvMount(Admin), caps |-> AllCaps]}
        ELSE {})

\* the policy document __set_policy writes for a tenant: a rule on the path
\* "<mount>/*" covers the paths of that mount and of no other
PolicyFor(t) ==
  {[path |-> <<"auth", "approle/login">>, caps |-> {"create", "read"}],
   [path |-> <<"auth", "carrier-approle/login">>, caps |-> {"create", "read"}],
   [path |-> KvMount(t), caps |-> AllCaps],
   [path |-> HiddenKvMount(t), caps |-> AllCaps]}
  \cup (IF t # Admin
        THEN {[path |-> KvMount(Admin), caps |-> {"read", "list"}]}
        ELSE {})

NoAuth == [set |-> FALSE, role_id |-> 0, secret_id |-> 0]
Auth(r, s) == [set |-> TRUE, role_id |-> r, secret_id |-> s]

\* VaultClient.__init__: self.auth of a facade for tenant t, no client yet
NewFacade(t) ==
  [auth |-> IF t = Admin THEN NoAuth ELSE projectAuth[t], token |-> "none"]

\* the token hvac holds after client.auth.approle.login(**self.auth.dict()):
\* the login is refused (InvalidRequest, caught) unless the pair is a live one
Login(auth, t, rs) ==
  IF auth.set /\ rs[t].present /\ rs[t].role_id = auth.role_id
     /\ auth.secret_id \in rs[t].secret_ids
  THEN "approle" ELSE "root"

\* the `client` property of facade f of tenant t: the token of self._client
ClientToken(f, t) ==
  IF f.token = "none" THEN Login(f.auth, t, roles) ELSE f.token

\* does the broker let a request with this token through
Allowed(tok, t, mount, cap) ==
  \/ tok = "root"
  \/ /\ tok = "approle"
     /\ policies[t].present
     /\ \E r \in policies[t].rules : r.path = mount /\ cap \in r.caps

\* kv.v2.read_secret_version: [ok, data]
KvRead(ms, tok, t, mount) ==
  IF ms[mount].present /\ Allowed(tok, t, mount, "read")
  THEN [ok |-> TRUE, data |-> ms[mount].data]
  ELSE [ok |-> FALSE, data |-> EmptyBucket]

\* kv.v2.create_or_update_secret: [ok, mounts]
KvWrite(ms, tok, t, mount, m) ==
  IF ms[mount].present /\ Allowed(tok, t, mount, "update")
  THEN [ok |-> TRUE, mounts |-> [ms EXCEPT ![mount] = Mounted(m)]]
  ELSE [ok |-> FALSE, mounts |-> ms]

\* _add_secrets_engine: enable_secrets_engine raises InvalidRequest on a path
\* in use, which exists_ok swallows before the empty secret is written
AddSecretsEngine(ms, mount) ==
  IF ms[mount].present THEN ms
  ELSE [ms EXCEPT ![mount] = Mounted(EmptyBucket)]

\* _init_approle: [role, auth, fresh].  create_or_update_approle keeps the
\* role id of an existing role; generate_secret_id adds a new secret id
InitApprole(t) ==
  LET isNew == ~roles[t].present
      rid == IF isNew THEN fresh + 1 ELSE roles[t].role_id
      n == IF isNew THEN fresh + 1 ELSE fresh
      sids == IF isNew THEN {} ELSE roles[t].secret_ids
  IN [role |-> [present |-> TRUE, role_id |-> rid, secret_ids |-> sids \cup {n + 1}],
      auth |-> Auth(rid, n + 1),
      fresh |-> n + 1]

\* create_project_space under with_admin_token, on facade f of tenant t:
\* [err, mounts, role, policy, fac, fresh]
VaultCreate(f, t) ==
  LET stashed == ClientToken(f, t)
      ia == InitApprole(t)
  IN [err |-> FALSE,
      policy |-> [present |-> TRUE, rules |-> PolicyFor(t)],
      mounts |-> AddSecretsEngine(AddSecretsEngine(mounts, KvMount(t)), HiddenKvMount(t)),
      role |-> ia.role,
      \* _init_approle dropped self._client; the wrapper builds a new one
      \* and puts the stashed token on it
      fac |-> [auth |-> ia.auth, token |-> stashed],
      fresh |-> ia.fresh]

\* remove_project_space under with_admin_token: [err, mounts, role, policy, fac]
VaultRemove(f, t) ==
  [err |-> FALSE,
   mounts |-> [mounts EXCEPT ![HiddenKvMount(t)] = Absent, ![KvMount(t)] = Absent],
   role |-> Absent,
   policy |-> Absent,
   fac |-> [f EXCEPT !.token = ClientToken(f, t)]]

\* a set_secrets that writes the mount admin_kv_mount names
VaultSetSecretsShared(f, ms, h, t) ==
  LET w == KvWrite(ms, ClientToken(f, t), t, KvMount(Admin), h[Caller].v) IN
  IF ~w.ok THEN [err |-> TRUE, mounts |-> ms, heap |-> h]
  ELSE [err |-> FALSE, mounts |-> w.mounts, heap |-> Bind(h, "secrets", Caller)]

\* set_secrets: [err, mounts, heap]
VaultSetSecrets(f, ms, h, t) ==
  LET w == KvWrite(ms, ClientToken(f, t), t, KvMount(t), h[Caller].v) IN
  IF ~w.ok THEN [err |-> TRUE, mounts |-> ms, heap |-> h]
  ELSE [err |-> FALSE, mounts |-> w.mounts, heap |-> Bind(h, "secrets", Caller)]

\* set_hidden_secrets: the administration facade first runs set_secrets,
\* and every facade then writes its hidden mount
VaultSetHiddenSecrets(f, ms, h, t) ==
  LET s1 == IF t = Admin THEN VaultSetSecrets(f, ms, h, t)
            ELSE [err |-> FALSE, mounts |-> ms, heap |-> h]
  IN IF s1.err THEN s1
     ELSE LET w == KvWrite(s1.mounts, ClientToken(f, t), t, HiddenKvMount(t), h[Caller].v) IN
          IF ~w.ok THEN [err |-> TRUE, mounts |-> s1.mounts, heap |-> s1.heap]
          ELSE [err |-> FALSE, mounts |-> w.mounts,
                heap |-> Bind(s1.heap, "hidden_secrets", Caller)]

\* the cache fill of get_secrets and of the non-administration branch of
\* get_hidden_secrets: [err, heap, read]
VaultFill(f, h, t, k) ==
  IF h[k].v # EmptyBucket
  THEN [err |-> FALSE, heap |-> h, read |-> {}]
  ELSE LET rd == KvRead(mounts, ClientToken(f, t), t, MountOf(t, k)) IN
       IF ~rd.ok THEN [err |-> TRUE, heap |-> h, read |-> {k}]
       ELSE [err |-> FALSE, heap |-> New(h, k, rd.data), read |-> {k}]

\* the cache entry a get_* call of the facade of t serves: get_hidden_secrets
\* of the administration facade returns self.get_secrets()
VaultKind(t, k) == IF t = Admin THEN "secrets" ELSE k

\* get_secrets / get_hidden_secrets: the caller receives the cached dict itself
VaultGet(f, h, t, k) ==
  LET g == VaultFill(f, h, t, VaultKind(t, k)) IN
  IF g.err THEN [err |-> TRUE, heap |-> g.heap, read |-> g.read]
  ELSE [err |-> FALSE, heap |-> Bind(g.heap, Caller, VaultKind(t, k)), read |-> g.read]

\* get_all_secrets
VaultGetAll(f, h, t) ==
  IF t = Admin THEN VaultGet(f, h, t, "secrets")
  ELSE
  LET sh == "shared_secrets"
      fill == h[sh].v = EmptyBucket
      \* self.__class__().get_all_secrets(): an administration facade, which
      \* has no auth and reads with the root token
      rd == KvRead(mounts, "root", Admin, KvMount(Admin))
  IN IF fill /\ ~rd.ok
     THEN [err |-> TRUE, heap |-> h, read |-> {sh}]
     ELSE LET h1 == IF fill THEN New(h, sh, rd.data) ELSE h
              r1 == IF fill THEN {sh} ELSE {}
              f1 == VaultFill(f, h1, t, "hidden_secrets")
          IN IF f1.err
             THEN [err |-> TRUE, heap |-> f1.heap, read |-> r1 \cup f1.read]
             ELSE \* all_secrets is the cached dict: update() changes it in place
                  LET h2 == Mutate(f1.heap, sh,
                                   DictUpdate(f1.heap[sh].v, f1.heap["hidden_secrets"].v))
                      f2 == VaultFill(f, h2, t, "secrets")
                  IN IF f2.err
                     THEN [err |-> TRUE, heap |-> f2.heap,
                           read |-> r1 \cup f1.read \cup f2.read]
                     ELSE LET h3 == Mutate(f2.heap, sh,
                                           DictUpdate(f2.heap[sh].v, f2.heap["secrets"].v))
                          IN [err |-> FALSE, heap |-> Bind(h3, Caller, sh),
                              read |-> r1 \cup f1.read \cup f2.read]

(***************************************************************************)
(* What is stored, as the properties read it.                              *)
(***************************************************************************)
\* some part of the tenant's space exists
SpaceExists(t) ==
  IF driver = "vault"
  THEN \/ mounts[KvMount(t)].present \/ mounts[HiddenKvMount(t)].present
       \/ roles[t].present \/ policies[t].present
  ELSE keys[t].present \/ blobs[t].present

\* the tenant's space is complete
Provisioned(t) ==
  CASE driver = "vault" ->
         /\ mounts[KvMount(t)].present /\ mounts[HiddenKvMount(t)].present
         /\ roles[t].present /\ policies[t].present
    [] driver = "mock" -> blobs[t].present
    [] OTHER -> keys[t].present /\ blobs[t].present

\* the bucket of kind k the driver stores for a provisioned tenant
Stored(t, k) ==
  IF driver = "vault" THEN mounts[MountOf(t, k)].data
  ELSE JsonLoads(blobs[t].data.body)[k]

(***************************************************************************)
(* History the properties refer to.                                        *)
(***************************************************************************)
Unset == [set |-> FALSE, val |-> EmptyBucket]

\* removing a space puts out of date what the live facade has cached of it:
\* the shared layer for the administration tenant, its own buckets for the
\* tenant it is bound to
StaleAfter(t) ==
  \/ hist.stale
  \/ (t = Admin /\ heap["shared_secrets"].v # EmptyBucket)
  \/ (t = bound /\ \E k \in BucketKinds : heap[k].v # EmptyBucket)

\* calls made on the live facade since it was constructed: 0, 1, or 2 for more
Called == IF hist.calls < 2 THEN hist.calls + 1 ELSE 2
CalledIf(t) == IF t = bound THEN Called ELSE hist.calls

Ret(op, t, err) == [op |-> op, t |-> t, err |-> err]

NoUnsecret ==
  [called |-> FALSE, value |-> << >>, secrets |-> EmptyBucket,
   err |-> FALSE, out |-> << >>]

\* Vault.query.get(c.VAULT_DB_PK): no row, or the unseal_json the broker of
\* identity i returned from sys.initialize (its root token and unseal keys)
NoRow == [present |-> FALSE, ident |-> 0]
UnsealJson(i) == [present |-> TRUE, ident |-> i]

\* the broker initialized and unsealed by the init_vault of the module's
\* start, its unseal_json persisted.  ident is the identity of the broker's
\* data (0: none), gen the number of identities there have been, initialize
\* the number of sys.initialize calls the last init_vault made
Booted ==
  [row |-> UnsealJson(1), up |-> TRUE, init |-> TRUE, sealed |-> FALSE,
   ident |-> 1, approle |-> TRUE, gen |-> 1, initialize |-> 0]

\* an attribute that is None or a str
None == [none |-> TRUE, s |-> << >>]
Some(s) == [none |-> FALSE, s |-> s]

\* no SecretString made yet.  Besides the attributes of the object: the
\* argument it was made from, whether a method has assigned to it since, the
\* number of uuids drawn so far, and of its last method the value returned
\* and the number of facades made
NoArg == [dict |-> FALSE, from_secrets |-> FALSE, value |-> << >>]
NoField ==
  [made |-> FALSE, project |-> Admin, repr |-> None, value |-> None,
   is_secret |-> FALSE, arg |-> NoArg, assigned |-> FALSE, minted |-> 0,
   out |-> None, clients |-> 0]

\* the processes that run side by side, and one that is at rest: where it is
\* in the code, whether it found the row of unseal keys and the keys it
\* holds, the calls it made on the broker and the database; the tenant of
\* its facade, the bucket it sets, the map it sets it to and the json it
\* writes
Procs == {1, 2}
Idle ==
  [pc |-> "idle", found |-> FALSE, keys |-> 0, calls |-> << >>,
   tenant |-> Admin, kind |-> "none", arg |-> << >>, data |-> << >>]

\* one more call of the facade API, while the behaviour is within its bound
Tick == ops < MaxOps /\ ops' = ops + 1 /\ UNCHANGED <<unsec, boot, field, proc>>

(***************************************************************************)
(* Operations.                                                             *)
(***************************************************************************)
\* Engine(project=t): a new facade replaces the live one
Construct(t) ==
  /\ Tick
  /\ bound' = t
  /\ heap' = FreshCache(heap)
  /\ fac' = NewFacade(t)
  /\ used' = [used EXCEPT !.set = {}]
  /\ hist' = [hist EXCEPT !.stale = FALSE, !.calls = 0]
  /\ ret' = Ret("construct", t, FALSE)
  /\ UNCHANGED <<driver, master_key, keys, blobs, mounts, roles, policies,
                 projectAuth, fresh>>

\* create_project_space, on the live facade when it is bound to t and on a
\* facade built for the call otherwise; on Vault the caller persists the
\* returned pair in the project's secrets_json
CreateProjectSpace(t) ==
  /\ Tick
  /\ IF driver = "vault"
     THEN LET r == VaultCreate(IF t = bound THEN fac ELSE NewFacade(t), t) IN
          /\ r.fresh <= MaxFresh
          /\ mounts' = r.mounts
          /\ roles' = [roles EXCEPT ![t] = r.role]
          /\ policies' = [policies EXCEPT ![t] = r.policy]
          /\ fac' = IF t = bound THEN r.fac ELSE fac
          /\ projectAuth' = [p \in Projects |-> IF p = t THEN r.fac.auth ELSE projectAuth[p]]
          /\ fresh' = r.fresh
          /\ ret' = Ret("create_project_space", t, r.err)
          /\ UNCHANGED <<keys, blobs>>
     ELSE LET r == CASE driver = "filesystem" -> FsCreate(t)
                     [] driver = "database" -> DbCreate(t)
                     [] OTHER -> MockCreate(t)
          IN /\ r.fresh <= MaxFresh
             /\ keys' = [keys EXCEPT ![t] = r.key]
             /\ blobs' = [blobs EXCEPT ![t] = r.blob]
             /\ fresh' = r.fresh
             /\ ret' = Ret("create_project_space", t, r.err)
             /\ UNCHANGED <<mounts, roles, policies, fac, projectAuth>>
  /\ hist' = [hist EXCEPT !.calls = CalledIf(t)]
  /\ UNCHANGED <<driver, master_key, bound, heap, used>>

\* remove_project_space, on the live facade or on one built for the call
RemoveProjectSpace(t) ==
  /\ Tick
  /\ IF driver = "vault"
     THEN LET r == VaultRemove(IF t = bound THEN fac ELSE NewFacade(t), t) IN
          /\ mounts' = r.mounts
          /\ roles' = [roles EXCEPT ![t] = r.role]
          /\ policies' = [policies EXCEPT ![t] = r.policy]
          /\ fac' = IF t = bound THEN r.fac ELSE fac
          /\ ret' = Ret("remove_project_space", t, r.err)
          /\ UNCHANGED <<keys, blobs>>
     ELSE LET r == CASE driver = "filesystem" -> FsRemove(t)
                     [] driver = "database" -> DbRemove(t)
                     [] OTHER -> MockRemove(t)
          IN /\ keys' = [keys EXCEPT ![t] = r.key]
             /\ blobs' = [blobs EXCEPT ![t] = r.blob]
             /\ ret' = Ret("remove_project_space", t, r.err)
             /\ UNCHANGED <<mounts, roles, policies, fac>>
  /\ hist' = [hist EXCEPT !.stale = StaleAfter(t),
                          !.calls = CalledIf(t),
                          !.lastSet[t] = [k \in BucketKinds |-> Unset]]
  /\ UNCHANGED <<driver, master_key, projectAuth, fresh, bound, heap, used>>

\* set_secrets / set_hidden_secrets on the live facade, with the dict the
\* caller holds in heap h
SetBucket(op, k, h) ==
  LET t == bound
      m == h[Caller].v
  IN
  /\ Tick
  /\ IF driver = "vault"
     THEN LET r == IF k = "secrets" THEN VaultSetSecrets(fac, mounts, h, t)
                   ELSE VaultSetHiddenSecrets(fac, mounts, h, t)
          IN /\ mounts' = r.mounts
             /\ heap' = r.heap
             /\ fac' = [fac EXCEPT !.token = ClientToken(fac, t)]
             /\ ret' = Ret(op, t, r.err)
             /\ hist' = [hist EXCEPT
                           !.calls = Called,
                           \* the set_* calls that returned, the nested
                           \* set_secrets of the administration facade included
                           !.lastSet[t] = [x \in BucketKinds |->
                                IF \/ (x = k /\ ~r.err)
                                   \/ (x = "secrets" /\ t = Admin /\ r.mounts # mounts)
                                THEN [set |-> TRUE, val |-> m] ELSE @[x]]]
             /\ UNCHANGED blobs
     ELSE LET r == BaseSet(h, t, k) IN
          /\ blobs' = [blobs EXCEPT ![t] = r.blob]
          /\ heap' = r.heap
          /\ ret' = Ret(op, t, r.err)
          /\ hist' = [hist EXCEPT
                        !.calls = Called,
                        !.lastSet[t][k] = IF r.err THEN @ ELSE [set |-> TRUE, val |-> m]]
          /\ UNCHANGED <<mounts, fac>>
  /\ UNCHANGED <<driver, master_key, keys, roles, policies, projectAuth, fresh,
                 bound, used>>

\* the caller passes a new dict m, or the dict it already holds
SetSecrets ==
  \/ \E m \in Bucket : SetBucket("set_secrets", "secrets", New(heap, Caller, m))
  \/ SetBucket("set_secrets", "secrets", heap)

SetHiddenSecrets ==
  \/ \E m \in Bucket :
       SetBucket("set_hidden_secrets", "hidden_secrets", New(heap, Caller, m))
  \/ SetBucket("set_hidden_secrets", "hidden_secrets", heap)

\* the common part of the get_* actions, r being the handler's outcome
Got(op, r) ==
  /\ Tick
  /\ heap' = r.heap
  /\ fac' = IF driver = "vault" /\ r.read \cap BucketKinds # {}
            THEN [fac EXCEPT !.token = ClientToken(fac, bound)] ELSE fac
  /\ ret' = Ret(op, bound, r.err)
  /\ hist' = [hist EXCEPT !.calls = Called]
  /\ UNCHANGED <<driver, master_key, keys, blobs, mounts, roles, policies,
                 projectAuth, fresh, bound, used>>

GetSecrets ==
  Got("get_secrets",
      IF driver = "vault" THEN VaultGet(fac, heap, bound, "secrets")
      ELSE BaseGet(heap, bound, "secrets"))

GetHiddenSecrets ==
  Got("get_hidden_secrets",
      IF driver = "vault" THEN VaultGet(fac, heap, bound, "hidden_secrets")
      ELSE BaseGet(heap, bound, "hidden_secrets"))

GetAllSecrets ==
  Got("get_all_secrets",
      IF driver = "vault" THEN VaultGetAll(fac, heap, bound) ELSE BaseGetAll(heap, bound))

\* the caller changes, in place, the dict it holds
CallerMutate ==
  /\ Tick
  /\ \E m \in Bucket :
       /\ m # heap[Caller].v
       /\ heap' = Mutate(heap, Caller, m)
  /\ ret' = Ret("mutate", "caller", FALSE)
  /\ UNCHANGED <<driver, master_key, keys, blobs, mounts, roles, policies,
                 projectAuth, fresh, bound, fac, used, hist>>

\* a facade freshly constructed for some tenant, and nothing provisioned
InitBooted(b) ==
  /\ driver \in Drivers
  /\ master_key \in (IF driver \in {"filesystem", "database"}
                     THEN {NoMaster, MasterKey} ELSE {NoMaster})
  /\ keys = [t \in Tenants |-> Absent]
  /\ blobs = [t \in Tenants |-> Absent]
  /\ mounts = [m \in MountNames |-> Absent]
  /\ roles = [t \in Tenants |-> Absent]
  /\ policies = [t \in Tenants |-> Absent]
  /\ projectAuth = [p \in Projects |-> NoAuth]
  /\ fresh = 0
  /\ bound \in Tenants
  /\ heap = [s \in Slots |-> [v |-> EmptyBucket, c |-> {s}]]
  /\ fac = [auth |-> NoAuth, token |-> "none"]
  /\ used = [track |-> FALSE, set |-> {}]
  /\ ret = Ret("init", "caller", FALSE)
  /\ ops = 0
  /\ unsec = NoUnsecret
  /\ hist = [lastSet |-> [t \in Tenants |-> [k \in BucketKinds |-> Unset]],
             stale |-> FALSE, calls |-> 0]
  /\ boot = b
  /\ field = NoField
  /\ proc = [p \in Procs |-> Idle]

Init == InitBooted(Booted)

(***************************************************************************)
(* Secret substitution.  A str is the sequence of its lexemes: the text    *)
(* "{{secret." , the text "}}", a character of [A-Za-z0-9_] or a run of    *)
(* hexadecimal digits, or a character outside that class.                  *)
(***************************************************************************)
TokenOpen == "{{secret."
TokenClose == "}}"
Dash == "-"
NameChars == Names \cup {"x"}
\* the runs of hexadecimal digits uuid4 draws
Hex == <<"h1", "h2", "h3", "h4">>
WordChars == NameChars \cup Values \cup {Hex[i] : i \in DOMAIN Hex}

\* the str "{{secret.<c>}}"
Tok(c) == <<TokenOpen, c, TokenClose>>

\* the values unsecret is called with: a well formed or unclosed token, or
\* none, with or without text before and after it
Texts ==
  {pre \o mid \o post :
     pre \in {<< >>, <<Dash>>},
     mid \in {<< >>} \cup {Tok(c) : c \in NameChars} \cup {<<TokenOpen, c>> : c \in Names},
     post \in {<< >>, <<Dash>>}}

\* the length of the longest run of [A-Za-z0-9_] in s from position i
WordRun(s, i) ==
  CHOOSE n \in 0..Len(s) :
    /\ \A j \in i..(i + n - 1) : j <= Len(s) /\ s[j] \in WordChars
    /\ (i + n > Len(s) \/ s[i + n] \notin WordChars)

\* _secret_pattern matched at position i of s: [ok, name, end]
MatchAt(s, i) ==
  LET n == WordRun(s, i + 1) IN
  IF s[i] = TokenOpen /\ n > 0 /\ i + n + 1 <= Len(s) /\ s[i + n + 1] = TokenClose
  THEN [ok |-> TRUE, name |-> SubSeq(s, i + 1, i + n), end |-> i + n + 1]
  ELSE [ok |-> FALSE, name |-> << >>, end |-> i]

\* position j of s lies in a match of _secret_pattern that starts before it
InMatch(s, j) ==
  \E i \in 1..(j - 1) : MatchAt(s, i).ok /\ j <= MatchAt(s, i).end

\* the strs of a sequence, joined
Concat(pieces) ==
  LET cat[i \in 0..Len(pieces)] ==
        IF i = 0 THEN << >> ELSE cat[i - 1] \o pieces[i]
  IN cat[Len(pieces)]

\* the empty str, a value a secret may have
Empty == ""

\* the maps unsecret is called with: a bucket, or a map that gives a name
\* the empty str
UnsecretMaps == Bucket \cup {[x \in Names |-> Empty]}

\* the value of a bucket the text of a token is
TokenText == [c \in Names |-> "{{secret.n}}"]

\* the lexemes of the str a value is
StrOf(val) ==
  IF val = Empty THEN << >>
  ELSE IF \E c \in Names : val = TokenText[c]
       THEN Tok(CHOOSE c \in Names : val = TokenText[c])
       ELSE <<val>>

\* secrets.get(name): the keys of a bucket are single characters
Lookup(secrets, name) ==
  IF Len(name) = 1 /\ name[1] \in DOMAIN secrets
  THEN [found |-> TRUE, val |-> secrets[name[1]]]
  ELSE [found |-> FALSE, val |-> Dash]

\* _replacer, for the match m at position i of s:
\* str(secrets.get(secret_key, match.group(0)))
Replacer(s, i, m, secrets) ==
  LET l == Lookup(secrets, m.name) IN
  IF l.found THEN StrOf(l.val) ELSE SubSeq(s, i, m.end)

\* re.sub(self._secret_pattern, replacer, value): every match replaced,
\* everything else kept
ReSub(s, secrets) ==
  Concat([i \in 1..Len(s) |->
            IF MatchAt(s, i).ok THEN Replacer(s, i, MatchAt(s, i), secrets)
            ELSE IF InMatch(s, i) THEN << >>
            ELSE <<s[i]>>])

\* Template(value).render(secret=secrets): [err, out].  "{{secret." opens an
\* expression, which must be a name closed by "}}" (TemplateSyntaxError
\* otherwise); an attribute the map lacks is Undefined and renders as the
\* empty str
JinjaRender(s, secrets) ==
  IF \E i \in 1..Len(s) : s[i] = TokenOpen /\ ~MatchAt(s, i).ok
  THEN [err |-> TRUE, out |-> << >>]
  ELSE [err |-> FALSE,
        out |-> Concat([i \in 1..Len(s) |->
                  IF MatchAt(s, i).ok
                  THEN LET l == Lookup(secrets, MatchAt(s, i).name) IN
                       IF l.found THEN StrOf(l.val) ELSE << >>
                  ELSE IF InMatch(s, i) THEN << >>
                  ELSE <<s[i]>>])]

\* the values of the secrets value refers to: re.findall on the base engine,
\* the Getattr nodes under the name "secret" on the Jinja engines; `if
\* secret_value:` passes over a name the map lacks and over an empty value
Referenced(s, secrets) ==
  {Lookup(secrets, MatchAt(s, i).name).val :
     i \in {j \in 1..Len(s) : /\ MatchAt(s, j).ok
                              /\ Lookup(secrets, MatchAt(s, j).name).found
                              /\ Lookup(secrets, MatchAt(s, j).name).val # Empty}}

\* __unsecret_string without the tracking: [err, out]
UnsecretString(value, secrets) ==
  IF driver \in {"vault", "mock"} THEN JinjaRender(value, secrets)
  ELSE [err |-> FALSE, out |-> ReSub(value, secrets)]

\* `if not secrets: secrets = self.get_all_secrets()`: what getting the map
\* does, [err, heap, read]
Resolve(secrets) ==
  IF secrets # EmptyBucket THEN [err |-> FALSE, heap |-> heap, read |-> {}]
  ELSE IF driver = "vault" THEN VaultGetAll(fac, heap, bound)
  ELSE BaseGetAll(heap, bound)

\* unsecret(value, secrets) as one of the calls on the live facade, value a
\* str.  The map get_all_secrets returns stays in the local variable
\* `secrets`, and the caller goes on holding the dict it held: ga is what
\* getting the map did on the heap h0, where Local refers to the caller's dict
UnsecretCalled(value, secrets, ga, r) ==
  /\ Tick
  /\ heap' = New(Bind(ga.heap, Caller, Local), Local, EmptyBucket)
  /\ fac' = IF driver = "vault" /\ ga.read \cap BucketKinds # {}
            THEN [fac EXCEPT !.token = ClientToken(fac, bound)] ELSE fac
  /\ used' = IF used.track /\ ~r.err
             THEN [used EXCEPT !.set = @ \cup
                     Referenced(value, IF secrets # EmptyBucket THEN secrets
                                       ELSE ga.heap[Caller].v)]
             ELSE used
  /\ ret' = Ret("unsecret", bound, r.err)
  /\ hist' = [hist EXCEPT !.calls = Called]
  /\ UNCHANGED <<driver, master_key, keys, blobs, mounts, roles, policies,
                 projectAuth, fresh, bound>>

UnsecretCallFrom(value, secrets, ga) ==
  UnsecretCalled(value, secrets, ga,
                 IF ga.err THEN [err |-> TRUE, out |-> << >>]
                 ELSE UnsecretString(value, IF secrets # EmptyBucket THEN secrets
                                            ELSE ga.heap[Caller].v))

UnsecretCallOn(value, secrets, h0) ==
  UnsecretCallFrom(value, secrets,
                   IF secrets # EmptyBucket
                   THEN [err |-> FALSE, heap |-> h0, read |-> {}]
                   ELSE IF driver = "vault" THEN VaultGetAll(fac, h0, bound)
                   ELSE BaseGetAll(h0, bound))

\* with the map left to get_all_secrets, or with a map of the caller's
UnsecretCall ==
  \E value \in {Tok(c) : c \in Names},
     secrets \in {EmptyBucket} \cup {[x \in Names |-> v] : v \in {"a"}} :
    UnsecretCallOn(value, secrets, Bind(heap, Local, Caller))

Next ==
  \/ \E t \in Tenants : Construct(t)
  \/ \E t \in Tenants : CreateProjectSpace(t)
  \/ \E t \in Tenants : RemoveProjectSpace(t)
  \/ SetSecrets
  \/ SetHiddenSecrets
  \/ GetSecrets
  \/ GetHiddenSecrets
  \/ GetAllSecrets
  \/ UnsecretCall
  \/ CallerMutate

Spec == Init /\ [][Next]_vars

\* the rest of unsecret, value a str: ga is what getting the map did, map the
\* map resolved with, r the outcome of __unsecret_string.  The map
\* get_all_secrets returns stays with unsecret: the caller's slot of the heap
\* stands for it
Unsecreted(value, ga, map, r) ==
  /\ ops < MaxUnsecret /\ ops' = ops + 1
  /\ heap' = ga.heap
  /\ fac' = IF driver = "vault" /\ ga.read \cap BucketKinds # {}
            THEN [fac EXCEPT !.token = ClientToken(fac, bound)] ELSE fac
  /\ used' = IF used.track /\ ~r.err
             THEN [used EXCEPT !.set = @ \cup Referenced(value, map)]
             ELSE used
  /\ unsec' = [called |-> TRUE, value |-> value, secrets |-> map,
               err |-> r.err, out |-> r.out]
  /\ ret' = Ret("unsecret", bound, r.err)
  /\ hist' = [hist EXCEPT !.calls = Called]
  /\ UNCHANGED <<driver, master_key, keys, blobs, mounts, roles, policies,
                 projectAuth, fresh, bound, boot, field, proc>>

UnsecretWith(value, ga, map) ==
  Unsecreted(value, ga, map,
             IF ga.err THEN [err |-> TRUE, out |-> << >>]
             ELSE UnsecretString(value, map))

UnsecretFrom(value, secrets, ga) ==
  UnsecretWith(value, ga,
               IF secrets # EmptyBucket THEN secrets ELSE ga.heap[Caller].v)

\* unsecret(value, secrets) on the live facade
Unsecret(value, secrets) == UnsecretFrom(value, secrets, Resolve(secrets))

\* the identifiers create_project_space drew for tenant t, the
\* administration tenant's space created first
FirstId(t) == IF t = Admin THEN 1 ELSE IF driver = "vault" THEN 3 ELSE 2

\* both spaces created, then set_secrets(sh) for the administration tenant
\* and set_secrets(vs) for the project; a facade just constructed for some
\* tenant, with or without track_used_secrets
InitUnsecret ==
  /\ driver \in Drivers
  /\ master_key \in (IF driver \in {"filesystem", "database"}
                     THEN {NoMaster, MasterKey} ELSE {NoMaster})
  /\ \E sh \in Bucket, vs \in Bucket :
       LET data == [t \in Tenants |->
                      [secrets |-> IF t = Admin THEN sh ELSE vs,
                       hidden_secrets |-> EmptyBucket]]
       IN /\ keys = [t \in Tenants |->
                       CASE driver = "filesystem" -> FsWriteKey(GenKey(FirstId(t)))
                         [] driver = "database" -> DbWriteKey(GenKey(FirstId(t)))
                         [] OTHER -> Absent]
          /\ blobs = [t \in Tenants |->
                        IF driver = "vault" THEN Absent ELSE Write(t, data[t]).file]
          /\ mounts = [m \in MountNames |->
                         IF driver # "vault" THEN Absent
                         ELSE LET t == CHOOSE x \in Tenants :
                                         m \in {KvMount(x), HiddenKvMount(x)}
                              IN IF m = KvMount(t) THEN Mounted(data[t].secrets)
                                 ELSE Mounted(data[t].hidden_secrets)]
          /\ hist = [lastSet |-> [t \in Tenants |-> [k \in BucketKinds |->
                                    [set |-> k = "secrets", val |-> data[t][k]]]],
                     stale |-> FALSE, calls |-> 0]
  /\ roles = [t \in Tenants |->
                IF driver # "vault" THEN Absent
                ELSE [present |-> TRUE, role_id |-> FirstId(t),
                      secret_ids |-> {FirstId(t) + 1}]]
  /\ policies = [t \in Tenants |->
                   IF driver # "vault" THEN Absent
                   ELSE [present |-> TRUE, rules |-> PolicyFor(t)]]
  /\ projectAuth = [p \in Projects |->
                      IF driver # "vault" THEN NoAuth
                      ELSE Auth(FirstId(p), FirstId(p) + 1)]
  /\ fresh = CASE driver = "vault" -> 4 [] driver = "mock" -> 0 [] OTHER -> 2
  /\ bound \in Tenants
  /\ heap = [s \in Slots |-> [v |-> EmptyBucket, c |-> {s}]]
  /\ fac = NewFacade(bound)
  /\ used \in {[track |-> b, set |-> {}] : b \in BOOLEAN}
  /\ ret = Ret("init", "caller", FALSE)
  /\ ops = 0
  /\ unsec = NoUnsecret
  /\ boot = Booted
  /\ field = NoField
  /\ proc = [p \in Procs |-> Idle]

NextUnsecret ==
  \E value \in Texts, secrets \in UnsecretMaps : Unsecret(value, secrets)

SpecUnsecret == InitUnsecret /\ [][NextUnsecret]_vars

(***************************************************************************)
(* unsecret over nested values.  A value is a node: a str with its         *)
(* lexemes, a list, tuple or set with its elements, a dict with its keys   *)
(* and the values under them in order, or a value of another type.         *)
(***************************************************************************)
\* Depth of nesting of the values unsecret is called with.
MaxDepth == 2

\* Calls of unsecret on a nested value made during one behaviour.
MaxStructure == 1

Node(type, str, ks, items) ==
  [type |-> type, str |-> str, keys |-> ks, items |-> items]
Str(s) == Node("str", s, << >>, << >>)
IntValue == Node("int", << >>, << >>, << >>)
DictKeys == <<"k1", "k2">>
ContainerTypes == {"list", "tuple", "set", "dict"}
Container(type, items) ==
  Node(type, << >>,
       IF type = "dict" THEN SubSeq(DictKeys, 1, Len(items)) ELSE << >>, items)

Leaves == {Str(Tok(c)) : c \in Names} \cup {Str(<<Dash>>), IntValue}

\* the values of nesting depth d or less
RECURSIVE Structures(_)
Structures(d) ==
  IF d = 0 THEN Leaves
  ELSE Leaves
       \cup {Container(ty, <<e>>) : ty \in ContainerTypes, e \in Structures(d - 1)}
       \cup {Container(ty, <<e1, e2>>) :
               ty \in ContainerTypes, e1 \in Leaves, e2 \in Leaves \ {Str(<<Dash>>)}}

\* unsecret(value, secrets) with the map already resolved: [err, out, used],
\* used being what the call adds to self.used_secrets.  _unsecret_list and
\* _unsecret_json go through the elements in order and stop at the first
\* that raises; a nested call that finds the map empty asks
\* get_all_secrets again, which returns that same map
RECURSIVE UnsecretValue(_, _)
UnsecretValue(value, secrets) ==
  CASE value.type = "str" ->
         LET r == UnsecretString(value.str, secrets) IN
         [err |-> r.err, out |-> Str(r.out),
          used |-> IF used.track /\ ~r.err THEN Referenced(value.str, secrets)
                   ELSE {}]
    [] value.type \in {"list", "dict"} ->
         LET n == Len(value.items)
             done[i \in 0..n] ==
               IF i = 0 THEN [err |-> FALSE, items |-> << >>, used |-> {}]
               ELSE IF done[i - 1].err THEN done[i - 1]
               ELSE LET r == UnsecretValue(value.items[i], secrets) IN
                    [err |-> r.err, items |-> Append(done[i - 1].items, r.out),
                     used |-> done[i - 1].used \cup r.used]
         IN [err |-> done[n].err,
             out |-> [value EXCEPT !.items = done[n].items],
             used |-> done[n].used]
    [] OTHER -> [err |-> FALSE, out |-> value, used |-> {}]

\* the rest of unsecret on a nested value: ga is what getting the map did,
\* map the map resolved with, r the outcome of the walk
UnsecretedValue(value, ga, map, r) ==
  /\ ops < MaxStructure /\ ops' = ops + 1
  /\ heap' = ga.heap
  /\ fac' = IF driver = "vault" /\ ga.read \cap BucketKinds # {}
            THEN [fac EXCEPT !.token = ClientToken(fac, bound)] ELSE fac
  /\ used' = [used EXCEPT !.set = @ \cup r.used]
  /\ unsec' = [called |-> TRUE, value |-> value, secrets |-> map,
               err |-> r.err, out |-> r.out]
  /\ ret' = Ret("unsecret", bound, r.err)
  /\ hist' = [hist EXCEPT !.calls = Called]
  /\ UNCHANGED <<driver, master_key, keys, blobs, mounts, roles, policies,
                 projectAuth, fresh, bound, boot, field, proc>>

UnsecretValueWith(value, ga, map) ==
  UnsecretedValue(value, ga, map,
                  IF ga.err THEN [err |-> TRUE, out |-> value, used |-> {}]
                  ELSE UnsecretValue(value, map))

UnsecretValueFrom(value, secrets, ga) ==
  UnsecretValueWith(value, ga,
                    IF secrets # EmptyBucket THEN secrets ELSE ga.heap[Caller].v)

\* unsecret(value, secrets) on the live facade, value a nested value
UnsecretStructure(value, secrets) ==
  UnsecretValueFrom(value, secrets, Resolve(secrets))

NextStructure ==
  \E value \in Structures(MaxDepth), secrets \in UnsecretMaps :
    UnsecretStructure(value, secrets)

SpecStructure == InitUnsecret /\ [][NextStructure]_vars

(***************************************************************************)
(* Stores that no longer decrypt (filesystem and database drivers): the    *)
(* bytes of a secrets file / row or of a key file / row are damaged, or    *)
(* the process runs with another SECRETS_MASTER_KEY than the one the keys  *)
(* were wrapped with.                                                      *)
(***************************************************************************)
\* bytes that are neither a key nor a Fernet token
Garbage == [kind |-> "garbage", key |-> NoKey, body |-> [none |-> TRUE]]

\* a second value of c.SECRETS_MASTER_KEY
OtherMasterKey == <<"master", 1>>

\* the secrets file / data row of tenant t is damaged
CorruptBlob(t) ==
  /\ Tick
  /\ blobs[t].present /\ blobs[t].data # Garbage
  /\ blobs' = [blobs EXCEPT ![t] = File(Garbage)]
  /\ ret' = Ret("corrupt", "caller", FALSE)
  /\ UNCHANGED <<driver, master_key, keys, mounts, roles, policies, projectAuth,
                 fresh, bound, heap, fac, used, hist>>

\* the key file / key row of tenant t is damaged
CorruptKey(t) ==
  /\ Tick
  /\ keys[t].present /\ keys[t].data # Garbage
  /\ keys' = [keys EXCEPT ![t] = File(Garbage)]
  /\ ret' = Ret("corrupt", "caller", FALSE)
  /\ UNCHANGED <<driver, master_key, blobs, mounts, roles, policies, projectAuth,
                 fresh, bound, heap, fac, used, hist>>

\* the process is restarted with another master key, or with none, or with
\* one where it had none; Engine.__init__ reads it, so a new facade is made
RotateMasterKey ==
  /\ Tick
  /\ \E mk \in {NoMaster, MasterKey, OtherMasterKey} :
       mk # master_key /\ master_key' = mk
  /\ heap' = FreshCache(heap)
  /\ used' = [used EXCEPT !.set = {}]
  /\ hist' = [hist EXCEPT !.stale = FALSE, !.calls = 0]
  /\ ret' = Ret("construct", bound, FALSE)
  /\ UNCHANGED <<driver, keys, blobs, mounts, roles, policies, projectAuth,
                 fresh, bound, fac>>

\* both spaces provisioned on an encrypting driver, the buckets of the
\* tenant the facade is not bound to empty
InitFault ==
  /\ InitUnsecret
  /\ driver \in {"filesystem", "database"}
  /\ ~used.track
  /\ \A t \in Tenants \ {bound} : hist.lastSet[t]["secrets"].val = EmptyBucket

NextFault ==
  \/ CorruptBlob(bound)
  \/ CorruptKey(bound)
  \/ RotateMasterKey
  \/ Construct(bound)
  \/ SetSecrets
  \/ SetHiddenSecrets
  \/ GetSecrets
  \/ GetHiddenSecrets

SpecFault == InitFault /\ [][NextFault]_vars

(***************************************************************************)
(* The Vault client with an hvac that lacks the AppRole API (the outdated  *)
(* pylon of the source's comments), and the repair fix_project_auth does.  *)
(***************************************************************************)
\* VaultAuth(): role_id and secret_id at their default "-", which 0, an id
\* the broker never hands out, stands for
DefaultAuth == Auth(0, 0)

\* create_project_space when create_or_update_approle raises
\* NotImplementedError: the policy and the mounts are made, _init_approle
\* returns the default pair, and the caller persists it
CreateProjectSpaceNoApprole(t) ==
  /\ Tick
  /\ driver = "vault"
  /\ mounts' = AddSecretsEngine(AddSecretsEngine(mounts, KvMount(t)), HiddenKvMount(t))
  /\ policies' = [policies EXCEPT ![t] = [present |-> TRUE, rules |-> PolicyFor(t)]]
  /\ fac' = IF t = bound
            THEN [auth |-> DefaultAuth, token |-> ClientToken(fac, t)] ELSE fac
  /\ projectAuth' = [p \in Projects |-> IF p = t THEN DefaultAuth ELSE projectAuth[p]]
  /\ ret' = Ret("create_project_space", t, FALSE)
  /\ hist' = [hist EXCEPT !.calls = CalledIf(t)]
  /\ UNCHANGED <<driver, master_key, keys, blobs, roles, fresh, bound, heap, used>>

\* VaultClient(project=t, fix_project_auth=True): a default pair is replaced
\* by what _init_approle returns, which __init__ persists
ConstructFix(t) ==
  LET broken == t # Admin /\ projectAuth[t] = DefaultAuth
      ia == InitApprole(t)
  IN
  /\ Tick
  /\ driver = "vault"
  /\ broken => ia.fresh <= MaxFresh
  /\ bound' = t
  /\ heap' = FreshCache(heap)
  /\ fac' = IF broken THEN [auth |-> ia.auth, token |-> "none"] ELSE NewFacade(t)
  /\ roles' = IF broken THEN [roles EXCEPT ![t] = ia.role] ELSE roles
  /\ projectAuth' = IF broken
                    THEN [p \in Projects |-> IF p = t THEN ia.auth ELSE projectAuth[p]]
                    ELSE projectAuth
  /\ fresh' = IF broken THEN ia.fresh ELSE fresh
  /\ used' = [used EXCEPT !.set = {}]
  /\ hist' = [hist EXCEPT !.stale = FALSE, !.calls = 0]
  /\ ret' = Ret("construct", t, FALSE)
  /\ UNCHANGED <<driver, master_key, keys, blobs, mounts, policies>>

InitVault == Init /\ driver = "vault"

NextVault ==
  \/ Next
  \/ \E t \in Tenants : CreateProjectSpaceNoApprole(t)
  \/ \E t \in Tenants : ConstructFix(t)

SpecVault == InitVault /\ [][NextVault]_vars

(***************************************************************************)
(* set_secrets and set_hidden_secrets of two facades in two processes:     *)
(* _read and _write are steps of the process, and those of the two         *)
(* interleave.  The cache of each facade is its own.                       *)
(***************************************************************************)
\* data = self._read(); data[k] = secrets, in process p on a facade of
\* tenant t
SetRead(p, t, k, m) ==
  /\ proc[p].pc = "idle"
  /\ proc' = [proc EXCEPT ![p] =
                IF Read(t, blobs[t]).ok
                THEN [Idle EXCEPT !.pc = "write", !.tenant = t, !.kind = k, !.arg = m,
                                  !.data = [Read(t, blobs[t]).data EXCEPT ![k] = m]]
                ELSE [Idle EXCEPT !.pc = "raised", !.tenant = t, !.kind = k, !.arg = m]]
  /\ UNCHANGED <<driver, master_key, keys, blobs, mounts, roles, policies,
                 projectAuth, fresh, bound, heap, fac, used, ret, ops, unsec,
                 hist, boot, field>>

\* self._write(data)
SetWrite(p) ==
  /\ proc[p].pc = "write"
  /\ proc' = [proc EXCEPT ![p].pc =
                IF Write(proc[p].tenant, proc[p].data).ok THEN "done" ELSE "raised"]
  /\ blobs' = IF Write(proc[p].tenant, proc[p].data).ok
              THEN [blobs EXCEPT ![proc[p].tenant] = Write(proc[p].tenant, proc[p].data).file]
              ELSE blobs
  /\ UNCHANGED <<driver, master_key, keys, mounts, roles, policies,
                 projectAuth, fresh, bound, heap, fac, used, ret, ops, unsec,
                 hist, boot, field>>

\* every tenant provisioned, on a driver that keeps one blob per tenant
InitRace ==
  InitUnsecret /\ driver \in {"filesystem", "database"} /\ bound = Admin /\ ~used.track

NextRace ==
  \/ \E p \in Procs, t \in Tenants, k \in BucketKinds, m \in Bucket : SetRead(p, t, k, m)
  \/ \E p \in Procs : SetWrite(p)

SpecRace == InitRace /\ [][NextRace]_vars

(***************************************************************************)
(* The database driver when a commit fails: session.commit() raises, the   *)
(* session is rolled back and the exception passed on.                     *)
(***************************************************************************)
\* create_project_space of tenant t, the commit of the row named failing:
\* [key, blob, fresh].  The key row is committed by _write_key in a session
\* of its own, before _write opens the one of the data row
DbCreateFailed(t, row) ==
  IF row = "secrets_key"
  THEN [key |-> keys[t], blob |-> blobs[t], fresh |-> fresh + 1]
  ELSE [key |-> DbCreate(t).key, blob |-> blobs[t], fresh |-> DbCreate(t).fresh]

\* create_project_space raises on a commit: that of the key row, made when
\* there is none, or that of the data row, made when there is none
CreateProjectSpaceFailed(t, row) ==
  /\ Tick
  /\ driver = "database"
  /\ IF row = "secrets_key" THEN ~keys[t].present ELSE ~blobs[t].present
  /\ DbCreateFailed(t, row).fresh <= MaxFresh
  /\ keys' = [keys EXCEPT ![t] = DbCreateFailed(t, row).key]
  /\ blobs' = [blobs EXCEPT ![t] = DbCreateFailed(t, row).blob]
  /\ fresh' = DbCreateFailed(t, row).fresh
  /\ ret' = Ret("create_project_space", t, TRUE)
  /\ hist' = [hist EXCEPT !.calls = CalledIf(t)]
  /\ UNCHANGED <<driver, master_key, mounts, roles, policies, fac, projectAuth,
                 bound, heap, used>>

\* remove_project_space raises on its commit: both deletes are rolled back
RemoveProjectSpaceFailed(t) ==
  /\ Tick
  /\ driver = "database"
  /\ keys[t].present \/ blobs[t].present
  /\ ret' = Ret("remove_project_space", t, TRUE)
  /\ hist' = [hist EXCEPT !.calls = CalledIf(t)]
  /\ UNCHANGED <<driver, master_key, keys, blobs, mounts, roles, policies, fac,
                 projectAuth, fresh, bound, heap, used>>

InitCommit == Init /\ driver = "database"

NextCommit ==
  \/ Next
  \/ \E t \in Tenants, row \in {"secrets_key", "secrets_data"} :
       CreateProjectSpaceFailed(t, row)
  \/ \E t \in Tenants : RemoveProjectSpaceFailed(t)

SpecCommit == InitCommit /\ [][NextCommit]_vars

(***************************************************************************)
(* with_admin_token when the wrapped method raises: the broker goes out of *)
(* reach after n of the calls the method makes on it.                      *)
(***************************************************************************)
\* calls of create_project_space before _init_approle (the policy, the two
\* mounts), and of remove_project_space before delete_policy (the two
\* mounts, the role)
CutPoints == 0..3

\* create_project_space on facade f of tenant t, cut after n calls:
\* [policy, mounts, fac].  The wrapper put the root token on the client and
\* the line that puts the stashed token back is not reached
VaultCreateCut(f, t, n) ==
  [policy |-> IF n >= 1 THEN [present |-> TRUE, rules |-> PolicyFor(t)]
              ELSE policies[t],
   mounts |-> IF n >= 3
              THEN AddSecretsEngine(AddSecretsEngine(mounts, KvMount(t)), HiddenKvMount(t))
              ELSE IF n = 2 THEN AddSecretsEngine(mounts, KvMount(t)) ELSE mounts,
   fac |-> [f EXCEPT !.token = "root"]]

\* remove_project_space cut after n calls: [mounts, role, fac]
VaultRemoveCut(f, t, n) ==
  [mounts |-> IF n >= 2
              THEN [mounts EXCEPT ![HiddenKvMount(t)] = Absent, ![KvMount(t)] = Absent]
              ELSE IF n = 1 THEN [mounts EXCEPT ![HiddenKvMount(t)] = Absent]
              ELSE mounts,
   role |-> IF n >= 3 THEN Absent ELSE roles[t],
   fac |-> [f EXCEPT !.token = "root"]]

\* create_project_space on the live facade raises
CreateProjectSpaceCut(n) ==
  /\ Tick
  /\ driver = "vault"
  /\ mounts' = VaultCreateCut(fac, bound, n).mounts
  /\ policies' = [policies EXCEPT ![bound] = VaultCreateCut(fac, bound, n).policy]
  /\ fac' = VaultCreateCut(fac, bound, n).fac
  /\ ret' = Ret("create_project_space", bound, TRUE)
  /\ hist' = [hist EXCEPT !.calls = CalledIf(bound)]
  /\ UNCHANGED <<driver, master_key, keys, blobs, roles, projectAuth, fresh,
                 bound, heap, used>>

\* remove_project_space on the live facade raises
RemoveProjectSpaceCut(n) ==
  /\ Tick
  /\ driver = "vault"
  /\ mounts' = VaultRemoveCut(fac, bound, n).mounts
  /\ roles' = [roles EXCEPT ![bound] = VaultRemoveCut(fac, bound, n).role]
  /\ fac' = VaultRemoveCut(fac, bound, n).fac
  /\ ret' = Ret("remove_project_space", bound, TRUE)
  /\ hist' = [hist EXCEPT !.stale = StaleAfter(bound),
                          !.calls = CalledIf(bound),
                          !.lastSet[bound] = [k \in BucketKinds |-> Unset]]
  /\ UNCHANGED <<driver, master_key, keys, blobs, policies, projectAuth, fresh,
                 bound, heap, used>>

NextConfine ==
  \/ Next
  \/ \E n \in CutPoints : CreateProjectSpaceCut(n)
  \/ \E n \in CutPoints : RemoveProjectSpaceCut(n)

SpecConfine == InitVault /\ [][NextConfine]_vars

(***************************************************************************)
(* Vault bootstrap: init_vault, between a row of unseal keys in the         *)
(* database and a broker that may lose its data, be restarted sealed, or    *)
(* be out of reach.                                                         *)
(***************************************************************************)
\* Identities a broker takes during one behaviour.
MaxInit == 3

\* client.sys.initialize(): the broker takes a new identity, sealed
SysInitialize(b) ==
  [b EXCEPT !.init = TRUE, !.sealed = TRUE, !.ident = b.gen + 1,
            !.gen = b.gen + 1, !.initialize = @ + 1]

\* vault_db_obj.unseal_json = vault_data; vault_db_obj.insert()
Persist(b) == [b EXCEPT !.row = UnsealJson(b.ident)]

\* the end of init_vault, [err, boot]: the keys of the row are submitted to
\* a sealed broker, which they unseal when they are its own, and the approle
\* auth method is enabled (InvalidRequest where it is enabled already)
Unsealed(b) ==
  IF b.sealed /\ b.row.ident # b.ident THEN [err |-> TRUE, boot |-> b]
  ELSE [err |-> FALSE, boot |-> [b EXCEPT !.sealed = FALSE, !.approle = TRUE]]

\* init_vault(), [err, boot]
InitVaultFrom(b) ==
  IF ~b.up THEN [err |-> TRUE, boot |-> b]
  ELSE IF ~b.row.present
  THEN IF b.init THEN [err |-> TRUE, boot |-> b]
       ELSE Unsealed(Persist(SysInitialize(b)))
  ELSE IF ~b.init THEN Unsealed(Persist(SysInitialize(b)))
       ELSE Unsealed(b)

\* VaultClient.init_vault(), as the module calls it when it starts
InitVaultCall ==
  /\ ops < MaxOps /\ ops' = ops + 1
  /\ boot' = InitVaultFrom([boot EXCEPT !.initialize = 0]).boot
  /\ ret' = Ret("init_vault", "caller",
                InitVaultFrom([boot EXCEPT !.initialize = 0]).err)
  /\ UNCHANGED <<driver, master_key, keys, blobs, mounts, roles, policies,
                 projectAuth, fresh, bound, heap, fac, used, unsec, hist, field,
                 proc>>

\* a step of the broker or of the database, which no facade takes part in
Outside(b) ==
  /\ ops < MaxOps /\ ops' = ops + 1
  /\ boot' = [b EXCEPT !.initialize = 0]
  /\ ret' = Ret("outside", "caller", FALSE)
  /\ UNCHANGED <<driver, master_key, keys, blobs, projectAuth, fresh, bound,
                 heap, fac, used, unsec, hist, field, proc>>

\* the broker loses its storage: its mounts, roles and policies with it
BrokerDataLoss ==
  /\ boot.init /\ boot.gen < MaxInit
  /\ Outside([boot EXCEPT !.init = FALSE, !.sealed = TRUE, !.ident = 0,
                          !.approle = FALSE])
  /\ mounts' = [m \in MountNames |-> Absent]
  /\ roles' = [t \in Tenants |-> Absent]
  /\ policies' = [t \in Tenants |-> Absent]

\* the broker is restarted, and comes back sealed
BrokerRestart ==
  /\ boot.init /\ ~boot.sealed
  /\ Outside([boot EXCEPT !.sealed = TRUE])
  /\ UNCHANGED <<mounts, roles, policies>>

\* the broker goes out of reach, or comes back
BrokerReach ==
  /\ Outside([boot EXCEPT !.up = ~@])
  /\ UNCHANGED <<mounts, roles, policies>>

\* the row of unseal keys is lost
RowLoss ==
  /\ boot.row.present
  /\ Outside([boot EXCEPT !.row = NoRow])
  /\ UNCHANGED <<mounts, roles, policies>>

NextBootstrap ==
  \/ InitVaultCall
  \/ BrokerDataLoss
  \/ BrokerRestart
  \/ BrokerReach
  \/ RowLoss

SpecBootstrap == InitVault /\ [][NextBootstrap]_vars

(***************************************************************************)
(* init_vault call by call: each call it makes on the database or on the   *)
(* broker is a step of the process that runs it, so that the runs of two    *)
(* processes that start together interleave.                               *)
(***************************************************************************)
\* a deployment that never started: no row of unseal keys, the broker not
\* initialized
Unbooted ==
  [row |-> NoRow, up |-> TRUE, init |-> FALSE, sealed |-> TRUE, ident |-> 0,
   approle |-> FALSE, gen |-> 0, initialize |-> 0]

\* process p made the call named and goes on at pc, holding the keys of
\* identity k; the broker and the row are left as b
IvStepWith(p, pc, call, b, k) ==
  /\ proc' = [proc EXCEPT ![p].pc = pc, ![p].calls = Append(@, call),
                          ![p].keys = k]
  /\ boot' = b
  /\ ret' = IF pc \in {"returned", "raised"}
            THEN Ret("init_vault", "caller", pc = "raised") ELSE ret
  /\ UNCHANGED <<driver, master_key, keys, blobs, mounts, roles, policies,
                 projectAuth, fresh, bound, heap, fac, used, ops, unsec, hist,
                 field>>

IvStep(p, pc, call, b) == IvStepWith(p, pc, call, b, proc[p].keys)

\* vault_db_obj = Vault.query.get(c.VAULT_DB_PK)
IvQuery(p) ==
  /\ proc[p].pc = "idle"
  /\ ops < MaxOps /\ ops' = ops + 1
  /\ proc' = [proc EXCEPT ![p] = [Idle EXCEPT !.pc = "is_initialized",
                                              !.found = boot.row.present,
                                              !.keys = boot.row.ident,
                                              !.calls = <<"query">>]]
  /\ boot' = [boot EXCEPT !.initialize = 0]
  /\ UNCHANGED <<driver, master_key, keys, blobs, mounts, roles, policies,
                 projectAuth, fresh, bound, heap, fac, used, ret, unsec, hist,
                 field>>

\* client.sys.is_initialized(), in either branch: without a row an
\* initialized broker is fatal (the bare `raise`)
IvIsInitialized(p) ==
  /\ proc[p].pc = "is_initialized"
  /\ IvStep(p, IF ~boot.up THEN "raised"
               ELSE IF ~boot.init THEN "initialize"
               ELSE IF proc[p].found THEN "is_sealed" ELSE "raised",
            "is_initialized", boot)

\* vault_data = client.sys.initialize(): a broker that is initialized
\* rejects the call (InvalidRequest)
IvInitialize(p) ==
  /\ proc[p].pc = "initialize"
  /\ IF boot.up /\ ~boot.init
     THEN IvStepWith(p, "insert", "initialize", SysInitialize(boot),
                     SysInitialize(boot).ident)
     ELSE IvStep(p, "raised", "initialize", boot)

\* an init_vault that keeps the keys to itself
IvInsertSkipped(p, dup) ==
  /\ proc[p].pc = "insert"
  /\ IvStep(p, "is_sealed", "insert", boot)

\* vault_db_obj.insert(): the row a process that found none adds has the
\* primary key of the row another process added meanwhile, which the
\* database rejects or takes as the new content (dup)
IvInsert(p, dup) ==
  /\ proc[p].pc = "insert"
  /\ IF ~proc[p].found /\ boot.row.present /\ dup = "rejected"
     THEN IvStep(p, "raised", "insert_rejected", boot)
     ELSE IvStep(p, "is_sealed", "insert", [boot EXCEPT !.row = UnsealJson(proc[p].keys)])

\* client.token = db_data.root_token; if client.sys.is_sealed():
\* client.sys.submit_unseal_keys(keys=db_data.keys)
IvIsSealed(p) ==
  /\ proc[p].pc = "is_sealed"
  /\ IF ~boot.up THEN IvStep(p, "raised", "is_sealed", boot)
     ELSE IF ~boot.sealed THEN IvStep(p, "enable_auth_method", "is_sealed", boot)
     ELSE IF proc[p].keys = boot.ident
     THEN IvStep(p, "enable_auth_method", "submit_unseal_keys",
                 [boot EXCEPT !.sealed = FALSE])
     ELSE IvStep(p, "raised", "submit_unseal_keys", boot)

\* client.sys.enable_auth_method(...): InvalidRequest, which an enabled
\* method answers with, is passed over; a sealed broker or another broker's
\* root token is not
IvEnable(p) ==
  /\ proc[p].pc = "enable_auth_method"
  /\ IF boot.up /\ boot.init /\ ~boot.sealed /\ proc[p].keys = boot.ident
     THEN IvStep(p, "returned", "enable_auth_method", [boot EXCEPT !.approle = TRUE])
     ELSE IvStep(p, "raised", "enable_auth_method", boot)

\* the process is free for its next call
IvEnd(p) ==
  /\ proc[p].pc \in {"returned", "raised"}
  /\ proc' = [proc EXCEPT ![p].pc = "idle"]
  /\ UNCHANGED <<driver, master_key, keys, blobs, mounts, roles, policies,
                 projectAuth, fresh, bound, heap, fac, used, ret, ops, unsec,
                 hist, boot, field>>

InitVaultStep(p) ==
  \/ IvQuery(p)
  \/ IvIsInitialized(p)
  \/ IvInitialize(p)
  \/ \E dup \in {"rejected", "taken"} : IvInsert(p, dup)
  \/ IvIsSealed(p)
  \/ IvEnable(p)
  \/ IvEnd(p)

\* two processes start on a deployment that never started
InitStartup == InitBooted(Unbooted) /\ driver = "vault" /\ bound = Admin

NextStartup == \E p \in Procs : InitVaultStep(p)

SpecStartup == InitStartup /\ [][NextStartup]_vars

\* the broker is initialized by hand, and unsealed or not: its keys are in
\* no row
BrokerByHand(sealed) ==
  /\ ~boot.init /\ boot.gen < MaxInit
  /\ Outside([SysInitialize(boot) EXCEPT !.sealed = sealed])
  /\ UNCHANGED <<mounts, roles, policies>>

\* one process runs init_vault again and again; between its runs the broker
\* loses its data, is initialized by hand, is restarted or goes out of reach,
\* the row is lost
NextRun ==
  \/ InitVaultStep(1)
  \/ proc[1].pc = "idle" /\ BrokerDataLoss
  \/ proc[1].pc = "idle" /\ BrokerRestart
  \/ proc[1].pc = "idle" /\ BrokerReach
  \/ proc[1].pc = "idle" /\ RowLoss
  \/ \E sealed \in BOOLEAN : proc[1].pc = "idle" /\ BrokerByHand(sealed)

SpecRun == InitStartup /\ [][NextRun]_vars

(***************************************************************************)
(* SecretString: a str that is a literal or a token naming a secret, and   *)
(* the facade it makes for its project when it resolves or stores itself.  *)
(***************************************************************************)
\* Names store_secret mints during one behaviour.
MaxMint == 2
\* Calls made on SecretString objects of every form.
MaxInstance == 4

\* str(uuid4()): runs of hexadecimal digits joined by hyphens
Uuid(i) == <<Hex[i], Dash, Hex[i]>>

\* SecretString._secret_pattern, re.fullmatch: the name may hold hyphens
FullMatch(s) ==
  /\ Len(s) >= 3 /\ s[1] = TokenOpen /\ s[Len(s)] = TokenClose
  /\ \A j \in 2..(Len(s) - 1) : s[j] \in WordChars \cup {Dash}

\* `not x` for an attribute that is None or a str
Falsy(a) == a.none \/ a.s = << >>

\* the key of a bucket a name is: a character, or the text of a uuid
KeyOf(name) ==
  IF Len(name) = 1 THEN name[1]
  ELSE <<"h1-h1", "h2-h2", "h3-h3", "h4-h4">>[CHOOSE i \in DOMAIN Hex : name = Uuid(i)]

\* the value of a bucket a str attribute is
ValOf(a) ==
  IF a.none THEN "None"
  ELSE CHOOSE v \in Values \cup {Empty, "None"} \cup {TokenText[c] : c \in Names} :
         StrOf(v) = a.s

\* SecretString(value, project_id), value a str or an old-style dict
FieldOf(arg, t) ==
  [made |-> TRUE, project |-> t,
   repr |-> IF arg.dict
            THEN (IF arg.from_secrets THEN Some(arg.value) ELSE None)
            ELSE (IF FullMatch(arg.value) THEN Some(arg.value) ELSE None),
   \* line 99 assigns the str to _secret_value whichever branch was taken
   value |-> IF arg.dict
             THEN (IF arg.from_secrets THEN None ELSE Some(arg.value))
             ELSE Some(arg.value),
   is_secret |-> IF arg.dict THEN arg.from_secrets ELSE FullMatch(arg.value),
   arg |-> arg, assigned |-> FALSE, minted |-> field.minted,
   out |-> None, clients |-> 0]

\* the object is made; no facade is
FieldMake(arg, t) ==
  /\ ops < MaxOps /\ ops' = ops + 1
  /\ field' = FieldOf(arg, t)
  /\ ret' = Ret("SecretString", t, FALSE)
  /\ UNCHANGED <<driver, master_key, keys, blobs, mounts, roles, policies,
                 projectAuth, fresh, bound, heap, fac, used, unsec, hist, boot,
                 proc>>

\* set_value
SetValue(value) ==
  /\ ops < MaxOps /\ ops' = ops + 1
  /\ field.made
  /\ field' = [field EXCEPT !.value = Some(value), !.assigned = TRUE,
                            !.out = None, !.clients = 0]
  /\ ret' = Ret("set_value", field.project, FALSE)
  /\ UNCHANGED <<driver, master_key, keys, blobs, mounts, roles, policies,
                 projectAuth, fresh, bound, heap, fac, used, unsec, hist, boot,
                 proc>>

\* client = VaultClient(project=self._project_id) and the calls made on it:
\* the facade f of tenant t replaces the live one, left as its calls leave
\* it; the dicts it handed out are dropped and the caller holds the dict it
\* held, which Local referred to meanwhile
ClientUsed(f, t, h, read) ==
  /\ bound' = t
  /\ heap' = New(Bind(h, Caller, Local), Local, EmptyBucket)
  /\ fac' = IF driver = "vault" /\ read \cap BucketKinds # {}
            THEN [f EXCEPT !.token = ClientToken(f, t)] ELSE f
  /\ used' = [track |-> FALSE, set |-> {}]

\* the caches of the facade just made, the caller's dict kept under Local
ClientHeap == Bind(FreshCache(heap), Local, Caller)

\* get_all_secrets / get_hidden_secrets of facade f of tenant t
GetAllOn(f, h, t) ==
  IF driver = "vault" THEN VaultGetAll(f, h, t) ELSE BaseGetAll(h, t)

GetHiddenOn(f, h, t) ==
  IF driver = "vault" THEN VaultGet(f, h, t, "hidden_secrets")
  ELSE BaseGet(h, t, "hidden_secrets")

\* set_hidden_secrets of facade f of tenant t: [err, mounts, blob, heap]
SetHiddenOn(f, h, t) ==
  IF driver = "vault"
  THEN LET r == VaultSetHiddenSecrets(f, mounts, h, t) IN
       [err |-> r.err, mounts |-> r.mounts, blob |-> blobs[t], heap |-> r.heap]
  ELSE LET r == BaseSet(h, t, "hidden_secrets") IN
       [err |-> r.err, mounts |-> mounts, blob |-> r.blob, heap |-> r.heap]

\* get_secret_value of the object fl, the branch that resolves: ga is what
\* get_all_secrets of the new facade did, r the outcome of __unsecret_string
Resolved(fl, op, f, t, ga, r) ==
  /\ ops < MaxOps /\ ops' = ops + 1
  /\ ClientUsed(f, t, ga.heap, ga.read)
  /\ hist' = [hist EXCEPT !.stale = FALSE, !.calls = 1]
  /\ field' = IF r.err THEN [fl EXCEPT !.out = None, !.clients = 1]
              ELSE [fl EXCEPT !.value = Some(r.out), !.assigned = TRUE,
                              !.out = Some(r.out), !.clients = 1]
  /\ ret' = Ret(op, t, r.err)
  /\ UNCHANGED <<driver, master_key, keys, blobs, mounts, roles, policies,
                 projectAuth, fresh, unsec, boot, proc>>

ResolvedFrom(fl, op, f, t, ga) ==
  Resolved(fl, op, f, t, ga,
           IF ga.err THEN [err |-> TRUE, out |-> << >>]
           ELSE UnsecretString(fl.repr.s, ga.heap[Caller].v))

\* the body of get_secret_value on the object fl, entered by the method op
GetValue(fl, op) ==
  IF Falsy(fl.value) /\ fl.is_secret
  THEN ResolvedFrom(fl, op, NewFacade(fl.project), fl.project,
                    GetAllOn(NewFacade(fl.project), ClientHeap, fl.project))
  ELSE /\ ops < MaxOps /\ ops' = ops + 1
       /\ field' = [fl EXCEPT !.out = fl.value, !.clients = 0]
       /\ ret' = Ret(op, fl.project, FALSE)
       /\ UNCHANGED <<driver, master_key, keys, blobs, mounts, roles, policies,
                      projectAuth, fresh, bound, heap, fac, used, unsec, hist,
                      boot, proc>>

\* get_secret_value
GetSecretValue ==
  /\ field.made
  /\ GetValue(field, "get_secret_value")

\* SecretString.unsecret(project_id): the object is bound to the tenant
\* given, then get_secret_value
FieldUnsecret(t) ==
  /\ field.made
  /\ GetValue([field EXCEPT !.project = t], "SecretString.unsecret")

\* a store_secret that gives every object the same name
MintedSame(fl) ==
  IF Falsy(fl.repr)
  THEN [fl EXCEPT !.repr = Some(<<TokenOpen>> \o Uuid(1) \o <<TokenClose>>),
                  !.minted = @ + 1, !.assigned = TRUE]
  ELSE fl

\* the object after `if not self._secret_repr: ... uuid4()`
Minted(fl) ==
  IF Falsy(fl.repr)
  THEN [fl EXCEPT !.repr = Some(<<TokenOpen>> \o Uuid(fl.minted + 1) \o <<TokenClose>>),
                  !.minted = @ + 1, !.assigned = TRUE]
  ELSE fl

\* the rest of store_secret: fl is the object with its token, gh what
\* get_hidden_secrets of the new facade did, st what set_hidden_secrets did
\* with the dict it returned, in which the name was assigned
Promoted(fl, f, t, gh, st) ==
  /\ ops < MaxOps /\ ops' = ops + 1
  /\ ClientUsed(f, t, st.heap, gh.read)
  /\ hist' = [hist EXCEPT
                !.stale = FALSE,
                !.calls = IF gh.err THEN 1 ELSE 2,
                \* as set_hidden_secrets on the live facade leaves it
                !.lastSet[t] = [x \in BucketKinds |->
                     IF \/ (x = "hidden_secrets" /\ ~st.err)
                        \/ (x = "secrets" /\ t = Admin /\ st.mounts # mounts)
                     THEN [set |-> TRUE, val |-> st.heap[Caller].v] ELSE @[x]]]
  /\ mounts' = st.mounts
  /\ blobs' = [blobs EXCEPT ![t] = st.blob]
  /\ field' = IF st.err THEN [fl EXCEPT !.out = None, !.clients = 1]
              ELSE [fl EXCEPT !.is_secret = TRUE, !.assigned = TRUE,
                              !.out = fl.repr, !.clients = 1]
  /\ ret' = Ret("store_secret", t, st.err)
  /\ UNCHANGED <<driver, master_key, keys, roles, policies, projectAuth, fresh,
                 unsec, boot, proc>>

PromotedWith(fl, f, t, gh) ==
  Promoted(fl, f, t, gh,
          IF gh.err \/ ~FullMatch(fl.repr.s)
          THEN [err |-> TRUE, mounts |-> mounts, blob |-> blobs[t], heap |-> gh.heap]
          ELSE SetHiddenOn(f,
                 Mutate(gh.heap, Caller,
                        DictUpdate(gh.heap[Caller].v,
                                   [x \in {KeyOf(SubSeq(fl.repr.s, 2, Len(fl.repr.s) - 1))}
                                      |-> ValOf(fl.value)])),
                 t))

\* store_secret
StoreSecret ==
  /\ field.made
  /\ Falsy(field.repr) => field.minted < MaxMint
  /\ PromotedWith(Minted(field), NewFacade(field.project), field.project,
                GetHiddenOn(NewFacade(field.project), ClientHeap, field.project))

\* the strs a SecretString is made from: a literal or a token
Literals == {<<v>> : v \in Values}
FieldArgs ==
  {[dict |-> d, from_secrets |-> b, value |-> v] :
     d \in BOOLEAN, b \in BOOLEAN, v \in Literals \cup {Tok(c) : c \in Names}}
  \ {[dict |-> FALSE, from_secrets |-> TRUE, value |-> v] :
       v \in Literals \cup {Tok(c) : c \in Names}}

\* SecretString objects that are made and asked for their value
NextField ==
  \/ \E arg \in FieldArgs, t \in Tenants : FieldMake(arg, t)
  \/ GetSecretValue

SpecField == InitUnsecret /\ [][NextField]_vars

\* SecretString objects made from a literal, that are promoted, assigned a
\* new literal and asked for their value
NextPromote ==
  \/ \E arg \in {a \in FieldArgs : a.value \in Literals /\ ~a.from_secrets},
        t \in Tenants : FieldMake(arg, t)
  \/ StoreSecret
  \/ \E v \in Literals : SetValue(v)
  \/ GetSecretValue

SpecPromote == InitUnsecret /\ [][NextPromote]_vars

\* SecretString objects of every form, and every method of theirs
NextInstance ==
  \/ \E arg \in FieldArgs, t \in Tenants : ops < MaxInstance /\ FieldMake(arg, t)
  \/ ops < MaxInstance /\ StoreSecret
  \/ \E v \in Literals : ops < MaxInstance /\ SetValue(v)
  \/ ops < MaxInstance /\ GetSecretValue
  \/ \E t \in Tenants : ops < MaxInstance /\ FieldUnsecret(t)

\* no facade was used before the first object is made
InitInstance == InitUnsecret /\ bound = Admin /\ ~used.track

SpecInstance == InitInstance /\ [][NextInstance]_vars

(***************************************************************************)
(* Properties.                                                             *)
(***************************************************************************)
GetOp(k) == IF k = "secrets" THEN "get_secrets" ELSE "get_hidden_secrets"

\* a call of operation op for tenant t is the step being taken
Calls(op, t) == ops' # ops /\ ret'.op = op /\ ret'.t = t

\* C1: round trip.  When the first call on a newly constructed facade is
\* get_secrets, and set_secrets(m) was the last set_secrets to return for the
\* tenant since its space was created, the call returns exactly m; the same
\* for get_hidden_secrets / set_hidden_secrets on a project tenant.
C1_RoundTrip ==
  \A k \in BucketKinds :
    (/\ ret.op = GetOp(k)
     /\ hist.calls = 1
     /\ (k = "hidden_secrets" => bound # Admin)
     /\ hist.lastSet[bound][k].set)
    => (~ret.err /\ heap[Caller].v = hist.lastSet[bound][k].val)

\* a project's hidden bucket, set to a non-empty map, read back by the first
\* call on a new facade
C1_Witness ==
  /\ ret.op = "get_hidden_secrets" /\ ~ret.err
  /\ hist.calls = 1
  /\ bound \in Projects
  /\ hist.lastSet[bound]["hidden_secrets"].set
  /\ hist.lastSet[bound]["hidden_secrets"].val # EmptyBucket
  /\ heap[Caller].v = hist.lastSet[bound]["hidden_secrets"].val

\* C2: idempotent provisioning.  create_project_space for a tenant whose
\* space is complete returns, leaves both stored buckets as they were and,
\* on the filesystem and database drivers, leaves the stored key as it was.
C2_IdempotentProvisioning ==
  [][\A t \in Tenants :
       (Calls("create_project_space", t) /\ Provisioned(t))
       => /\ ~ret'.err
          /\ Provisioned(t)'
          /\ \A k \in BucketKinds : Stored(t, k)' = Stored(t, k)
          /\ driver \in {"filesystem", "database"} => keys'[t] = keys[t]]_vars

\* create_project_space has returned for a tenant whose visible bucket was
\* set to a non-empty map since its space was created
C2_Witness ==
  /\ ret.op = "create_project_space" /\ ~ret.err
  /\ \E t \in Tenants :
       /\ ret.t = t
       /\ hist.lastSet[t]["secrets"].set
       /\ hist.lastSet[t]["secrets"].val # EmptyBucket
       /\ Stored(t, "secrets") = hist.lastSet[t]["secrets"].val

\* C3: on Vault, create_project_space for a project whose space is complete
\* returns the pair the earlier call returned (the pair the caller persisted).
C3_CredentialsKept ==
  [][\A t \in Projects :
       (driver = "vault" /\ Calls("create_project_space", t) /\ Provisioned(t))
       => projectAuth'[t] = projectAuth[t]]_vars

\* C4: idempotent teardown.  remove_project_space for a tenant of which
\* nothing is stored returns without raising and changes nothing stored.
C4_IdempotentTeardown ==
  [][\A t \in Tenants :
       (Calls("remove_project_space", t) /\ ~SpaceExists(t))
       => /\ ~ret'.err
          /\ UNCHANGED <<keys, blobs, mounts, roles, policies, projectAuth>>]_vars

\* remove_project_space has returned as the first call of the behaviour,
\* when no space had been created
C4_Witness ==
  /\ ret.op = "remove_project_space" /\ ~ret.err
  /\ ops = 1
  /\ \A t \in Tenants : ~SpaceExists(t)

\* shared, then hidden, then visible, as stored
Layered(t) ==
  DictUpdate(DictUpdate(Stored(Admin, "secrets"), Stored(t, "hidden_secrets")),
             Stored(t, "secrets"))

\* C5: layer precedence.  get_all_secrets of a project's facade returns the
\* stored shared bucket, overridden by the stored hidden bucket, overridden
\* by the stored visible bucket, whenever the facade's own two cache entries
\* agree with what is stored and no space it has cached was removed.
C5_LayerPrecedence ==
  (/\ ret.op = "get_all_secrets" /\ ~ret.err
   /\ bound \in Projects
   /\ Provisioned(Admin) /\ Provisioned(bound)
   /\ ~hist.stale
   /\ \A k \in BucketKinds : heap[k].v = Stored(bound, k))
  => heap[Caller].v = Layered(bound)

\* the buckets a get_secrets / get_hidden_secrets call made now would fetch
\* from the driver
WouldRead(k) ==
  IF driver = "vault" THEN VaultGet(fac, heap, bound, k).read
  ELSE BaseGet(heap, bound, k).read

\* C6: read-through cache.  A get_secrets (get_hidden_secrets) call that
\* directly follows a get_secrets (get_hidden_secrets) call that returned, on
\* the same facade, fetches nothing from the driver.
C6_NoSecondRead ==
  [][\A k \in BucketKinds :
       (ret.op = GetOp(k) /\ ~ret.err /\ Calls(GetOp(k), bound))
       => WouldRead(k) = {}]_vars

\* C7: defensive copy.  When the caller changes the map a get_* call has
\* just returned, no cache entry of the facade changes.
C7_DefensiveCopy ==
  [][(/\ ret.op \in {"get_secrets", "get_hidden_secrets", "get_all_secrets"}
      /\ ~ret.err
      /\ Calls("mutate", "caller"))
     => \A k \in CacheKinds : heap'[k].v = heap[k].v]_vars

\* C8: cache/driver consistency.  While the space of the facade's tenant
\* stands, a populated cache entry of a bucket equals the stored bucket.
C8_CacheMatchesDriver ==
  \A k \in BucketKinds :
    (Provisioned(bound) /\ ~hist.stale /\ heap[k].v # EmptyBucket)
    => heap[k].v = Stored(bound, k)

SetOp(k) == IF k = "secrets" THEN "set_secrets" ELSE "set_hidden_secrets"
Other(k) == IF k = "secrets" THEN "hidden_secrets" ELSE "secrets"

\* C9: full replace of one bucket.  A set_secrets(m) that returns on a
\* project's facade leaves m as the stored visible bucket and the stored
\* hidden bucket as it was; set_hidden_secrets(m) likewise, the other way round.
C9_FullReplace ==
  [][\A k \in BucketKinds :
       (bound \in Projects /\ Calls(SetOp(k), bound) /\ ~ret'.err)
       => /\ Stored(bound, k)' = heap'[Caller].v
          /\ Stored(bound, Other(k))' = Stored(bound, Other(k))]_vars

\* set_secrets has returned on a project's facade, the empty map now stored
\* as the visible bucket, next to a hidden bucket set to a non-empty map
C9_Witness ==
  /\ ret.op = "set_secrets" /\ ~ret.err
  /\ bound \in Projects
  /\ hist.lastSet[bound]["secrets"].val = EmptyBucket
  /\ Stored(bound, "secrets") = EmptyBucket
  /\ hist.lastSet[bound]["hidden_secrets"].set
  /\ hist.lastSet[bound]["hidden_secrets"].val # EmptyBucket
  /\ Stored(bound, "hidden_secrets") = hist.lastSet[bound]["hidden_secrets"].val

\* C10: unknown token names.  unsecret of the str "{{secret.NAME}}", NAME
\* not a name of the map used for the resolution, returns that str and does
\* not raise.
C10_UnknownTokenKept ==
  \A c \in NameChars :
    (unsec.called /\ unsec.value = Tok(c) /\ c \notin DOMAIN unsec.secrets)
    => (~unsec.err /\ unsec.out = unsec.value)

\* the str value is one token with text before it, after it, or both
Mixed(value, c) ==
  \E pre \in {<< >>, <<Dash>>}, post \in {<< >>, <<Dash>>} :
    pre \o post # << >> /\ value = pre \o Tok(c) \o post

\* C11: whole-string token match only.  unsecret of a str that holds a
\* token {{secret.NAME}} together with other characters returns that str
\* unchanged, also when NAME is a name of the map used.
C11_MixedKeptVerbatim ==
  \A c \in NameChars :
    (unsec.called /\ Mixed(unsec.value, c) /\ c \in DOMAIN unsec.secrets)
    => (~unsec.err /\ unsec.out = unsec.value)

\* the names of the tokens that are str leaves of a value
RECURSIVE TokenNames(_)
TokenNames(value) ==
  IF value.type = "str"
  THEN {c \in NameChars : value.str = Tok(c)}
  ELSE UNION {TokenNames(value.items[i]) : i \in 1..Len(value.items)}

\* a value with every token leaf replaced by what the map gives its name,
\* in lists, tuples, sets and dicts alike
RECURSIVE Substituted(_, _)
Substituted(value, secrets) ==
  IF value.type = "str"
  THEN IF \E c \in DOMAIN secrets : value.str = Tok(c)
       THEN Str(StrOf(secrets[CHOOSE c \in DOMAIN secrets : value.str = Tok(c)]))
       ELSE value
  ELSE [value EXCEPT !.items =
          [i \in 1..Len(value.items) |-> Substituted(value.items[i], secrets)]]

\* C12: recursive substitution.  unsecret of a nested value whose token
\* leaves all name secrets of the map used returns the value with every
\* token leaf replaced by the mapped value, inside lists, tuples, sets and
\* dicts, with the containers, their keys and every other leaf as they were.
C12_RecursiveSubstitution ==
  (unsec.called /\ TokenNames(unsec.value) \subseteq DOMAIN unsec.secrets)
  => (~unsec.err /\ unsec.out = Substituted(unsec.value, unsec.secrets))

\* the token {{secret.c}} occurs in the str value
Occurs(value, c) ==
  \E i \in 1..(Len(value) - 2) : SubSeq(value, i, i + 2) = Tok(c)

\* the values the map gives the names that occur as tokens in the str value
Dereferenced(value, secrets) ==
  {secrets[c] : c \in {x \in DOMAIN secrets : Occurs(value, x)}}

\* C13: used-secret tracking.  With track_used_secrets enabled, a call of
\* unsecret that returns adds to used_secrets exactly the values (not the
\* names) the map used gives the names that occur as tokens in the str, and
\* takes nothing out of the set; with tracking disabled the set stays empty.
C13_UsedSecretsTracked ==
  [][(ops' # ops /\ unsec'.called /\ ~unsec'.err)
     => used'.set = IF used.track
                    THEN used.set \cup Dereferenced(unsec'.value, unsec'.secrets)
                    ELSE {}]_vars

\* the key and the blob of tenant t are stored, and the blob does not decrypt
Undecryptable(t) ==
  keys[t].present /\ blobs[t].present /\ ~Read(t, blobs[t]).ok

\* set_secrets / set_hidden_secrets on a store that does not decrypt raises,
\* leaves the stored blob as it was and no cache entry changed
SetFailsClean ==
  \A k \in BucketKinds :
    (Calls(SetOp(k), bound) /\ Undecryptable(bound))
    => /\ ret'.err
       /\ blobs' = blobs /\ keys' = keys
       /\ \A c \in CacheKinds :
            /\ heap'[c].v = heap[c].v
            /\ Caller \in heap'[c].c => Caller \in heap[c].c

\* C14, as claimed: decryption failure isolation.  On the filesystem and
\* database drivers, while the blob of the facade's tenant does not decrypt,
\* every get_secrets / get_hidden_secrets call raises, and every set_secrets
\* / set_hidden_secrets call raises without changing the blob or the cache.
C14_DecryptionFailureIsolation ==
  [][/\ \A k \in BucketKinds :
          (Calls(GetOp(k), bound) /\ Undecryptable(bound)) => ret'.err
     /\ SetFailsClean]_vars

\* C14, amended: a get_secrets / get_hidden_secrets call raises when the
\* facade holds nothing of the bucket in its cache, and returns what the
\* cache holds, a non-empty bucket, otherwise; the set_* calls as claimed.
C14_DecryptionFailureOnRead ==
  [][/\ \A k \in BucketKinds :
          (Calls(GetOp(k), bound) /\ Undecryptable(bound))
          => IF heap[k].v = EmptyBucket
             THEN ret'.err /\ \A c \in CacheKinds : heap'[c].v = heap[c].v
             ELSE ~ret'.err /\ heap'[Caller].v = heap[k].v
     /\ SetFailsClean]_vars

\* get_secrets has raised on a facade constructed after the blob was
\* damaged, the bucket having been set to a non-empty map before
C14_Witness ==
  /\ ret.op = "get_secrets" /\ ret.err
  /\ hist.calls = 1
  /\ Undecryptable(bound)
  /\ blobs[bound].data = Garbage
  /\ hist.lastSet[bound]["secrets"].val # EmptyBucket
  /\ heap["secrets"].v = EmptyBucket

BucketOps ==
  {"set_secrets", "set_hidden_secrets", "get_secrets", "get_hidden_secrets",
   "get_all_secrets"}

\* C15: broken-credential detection.  On Vault, a bucket operation on the
\* facade of a project whose credential pair is the default ("-", "-") is
\* reported as an error and is not made with the broker's root token.
C15_BrokenCredentialsReported ==
  (/\ driver = "vault" /\ bound \in Projects
   /\ projectAuth[bound] = DefaultAuth /\ fac.auth = DefaultAuth
   /\ ret.op \in BucketOps /\ ret.t = bound /\ hist.calls = 1)
  => (ret.err /\ fac.token # "root")

\* tenants a broker may hold besides the ones of the model
TenantUniverse == Tenants \cup {"p2", "p12"}

\* the capabilities a policy document grants on the paths of a mount
Granted(rules, mount) == UNION {r.caps : r \in {x \in rules : x.path = mount}}

C17_TenantIsolation ==
  [][\A u \in Tenants :
       (ops' # ops /\ ret'.t \in Tenants \ {u})
       => /\ keys'[u] = keys[u]
          /\ blobs'[u] = blobs[u]
          /\ \A k \in BucketKinds : mounts'[MountOf(u, k)] = mounts[MountOf(u, k)]]_vars

\* get_all_secrets has returned on a project's facade a map that holds a
\* secret of the administration tenant's visible bucket, which is stored as
\* it was set
C17_Witness ==
  /\ ret.op = "get_all_secrets" /\ ~ret.err
  /\ bound \in Projects
  /\ Provisioned(Admin) /\ Provisioned(bound)
  /\ hist.lastSet[Admin]["secrets"].set
  /\ Stored(Admin, "secrets") # EmptyBucket
  /\ Stored(Admin, "secrets") = hist.lastSet[Admin]["secrets"].val
  /\ Stored(bound, "secrets") = EmptyBucket
  /\ heap[Caller].v = Stored(Admin, "secrets")

\* C18: broker data loss.  When init_vault runs while unseal keys are
\* persisted and the broker, within reach, reports that it is not
\* initialized, init_vault raises, makes no sys.initialize call and leaves
\* the persisted root token and unseal keys as they were.
C18_DataLossIsFatal ==
  [][(/\ ops' # ops /\ ret'.op = "init_vault"
      /\ boot.row.present /\ boot.up /\ ~boot.init)
     => (/\ ret'.err
         /\ boot'.initialize = 0
         /\ boot'.row = boot.row)]_vars

\* the name in a token
NameIn(tok) == SubSeq(tok, 2, Len(tok) - 1)

\* C19: indirect value resolution.  get_secret_value() on a SecretString
\* made from the str of a token {{secret.n}}, for a tenant whose merged
\* secrets give n the value v, makes a facade and returns v; on one made
\* from a literal it returns the literal and makes no facade.
C19_IndirectResolution ==
  [][(/\ ops' # ops /\ ret'.op = "get_secret_value"
      /\ ~field.arg.dict /\ ~field.assigned)
     => /\ (/\ FullMatch(field.arg.value)
            /\ KeyOf(NameIn(field.arg.value)) \in DOMAIN Layered(field.project))
           => /\ ~ret'.err
              /\ field'.out = Some(StrOf(Layered(field.project)
                                           [KeyOf(NameIn(field.arg.value))]))
              /\ field'.clients = 1
        /\ ~FullMatch(field.arg.value)
           => /\ field'.out = Some(field.arg.value)
              /\ field'.clients = 0]_vars

\* what get_secret_value() would return for the live SecretString
WouldReturn ==
  IF Falsy(field.value) /\ field.is_secret
  THEN UnsecretString(field.repr.s, Layered(field.project)).out
  ELSE field.value.s

\* C20: promotion round trip.  store_secret() on a SecretString holding a
\* literal v and no token returns a token {{secret.<name>}} whose name is new
\* to the hidden bucket and made of [A-Za-z0-9_] characters only; the hidden
\* bucket of the tenant then gives name the value v, the facade resolves the
\* token to v, and get_secret_value() returns v.
C20_PromotionRoundTrip ==
  [][(/\ ops' # ops /\ ret'.op = "store_secret" /\ ~ret'.err
      /\ Falsy(field.repr) /\ ~Falsy(field.value))
     => /\ field'.out = field'.repr /\ FullMatch(field'.out.s)
        /\ \A j \in 1..Len(NameIn(field'.out.s)) :
             NameIn(field'.out.s)[j] \in WordChars
        /\ KeyOf(NameIn(field'.out.s))
             \notin DOMAIN Stored(field.project, "hidden_secrets")
        /\ KeyOf(NameIn(field'.out.s))
             \in DOMAIN Stored(field.project, "hidden_secrets")'
        /\ Stored(field.project, "hidden_secrets")'[KeyOf(NameIn(field'.out.s))]
             = ValOf(field.value)
        /\ UnsecretString(field'.out.s, Layered(field.project)')
             = [err |-> FALSE, out |-> field.value.s]
        /\ WouldReturn' = field.value.s]_vars

\* C21: promotion conflict.  store_secret() on a SecretString that already is
\* indirect (made from a token, made from an old-style dict with
\* from_secrets, or promoted before) fails, and the hidden bucket of its
\* tenant is left as it was.
C21_PromotionConflict ==
  [][(/\ ops' # ops /\ ret'.op = "store_secret"
      /\ field.made /\ field.is_secret)
     => /\ ret'.err
        /\ Stored(field.project, "hidden_secrets")'
             = Stored(field.project, "hidden_secrets")]_vars

\* C22: frame of promotion.  store_secret() on a SecretString holding a
\* literal, when it returns, has added the one name it minted to the hidden
\* bucket of the tenant and changed nothing else that is stored: every entry
\* the hidden bucket had keeps its value, the visible bucket and the buckets
\* of the other tenants are as before; the object is indirect afterwards.
C22_PromotionFrame ==
  [][(/\ ops' # ops /\ ret'.op = "store_secret" /\ ~ret'.err
      /\ field.made /\ Falsy(field.repr) /\ ~field.is_secret)
     => /\ KeyOf(NameIn(field'.repr.s))
             \notin DOMAIN Stored(field.project, "hidden_secrets")
        /\ DOMAIN Stored(field.project, "hidden_secrets")'
             = DOMAIN Stored(field.project, "hidden_secrets")
                 \cup {KeyOf(NameIn(field'.repr.s))}
        /\ \A x \in DOMAIN Stored(field.project, "hidden_secrets") :
             Stored(field.project, "hidden_secrets")'[x]
               = Stored(field.project, "hidden_secrets")[x]
        /\ Stored(field.project, "secrets")' = Stored(field.project, "secrets")
        /\ \A t \in Tenants \ {field.project}, k \in BucketKinds :
             Stored(t, k)' = Stored(t, k)
        /\ field'.is_secret]_vars


\* C22, amended: frame of promotion outside the administration tenant of
\* the vault driver.  There, store_secret() on a SecretString holding a
\* literal, when it returns, has added the one name it minted to the hidden
\* bucket of the tenant and changed nothing else that is stored: every entry
\* the hidden bucket had keeps its value, the visible bucket and the buckets
\* of the other tenants are as before; the object is indirect afterwards.
C22_PromotionFrameProject ==
  [][(/\ ops' # ops /\ ret'.op = "store_secret" /\ ~ret'.err
      /\ field.made /\ Falsy(field.repr) /\ ~field.is_secret
      /\ ~(driver = "vault" /\ field.project = Admin))
     => /\ KeyOf(NameIn(field'.repr.s))
             \notin DOMAIN Stored(field.project, "hidden_secrets")
        /\ DOMAIN Stored(field.project, "hidden_secrets")'
             = DOMAIN Stored(field.project, "hidden_secrets")
                 \cup {KeyOf(NameIn(field'.repr.s))}
        /\ \A x \in DOMAIN Stored(field.project, "hidden_secrets") :
             Stored(field.project, "hidden_secrets")'[x]
               = Stored(field.project, "hidden_secrets")[x]
        /\ Stored(field.project, "secrets")' = Stored(field.project, "secrets")
        /\ \A t \in Tenants \ {field.project}, k \in BucketKinds :
             Stored(t, k)' = Stored(t, k)
        /\ field'.is_secret]_vars

\* a literal was promoted for a project whose hidden bucket held an entry
C22_Witness ==
  /\ ret.op = "store_secret" /\ ~ret.err
  /\ field.project \in Projects /\ field.is_secret /\ field.minted = 2
  /\ ~field.arg.dict /\ field.arg.value \in Literals
  /\ Cardinality(DOMAIN Stored(field.project, "hidden_secrets")) = 2

\* what a facade made for tenant t resolves the token of the object to
ValueUnder(t) ==
  UnsecretString(field.repr.s,
                 GetAllOn(NewFacade(t), ClientHeap, t).heap[Caller].v)

\* C23: no cross-tenant resolution.  When an indirect SecretString was
\* resolved for its tenant and unsecret(project_id) is then called with
\* another tenant, for which the token resolves, the call returns the value
\* the token has under that tenant.
C23_ResolvedForTenant ==
  [][(/\ ops' # ops /\ ret'.op = "SecretString.unsecret"
      /\ field.made /\ field.is_secret
      /\ ret.op \in {"get_secret_value", "SecretString.unsecret"}
      /\ ~ret.err /\ field.clients = 1
      /\ field'.project # field.project
      /\ ~GetAllOn(NewFacade(field'.project), ClientHeap, field'.project).err
      /\ ~ValueUnder(field'.project).err)
     => /\ ~ret'.err
        /\ field'.out = Some(ValueUnder(field'.project).out)]_vars

\* C24: one attribute set.  A SecretString made from a str is indirect
\* exactly when the whole str is a token, until a method changes it; and in
\* every state of the object exactly one of its value and its token is set.
C24_OneOfValueAndToken ==
  (field.made /\ ~field.arg.dict)
  => /\ ~field.assigned => (field.is_secret <=> FullMatch(field.arg.value))
     /\ field.value.none # field.repr.none

\* process p made the call named during its run of init_vault
Made(p, call) == \E i \in DOMAIN proc[p].calls : proc[p].calls[i] = call

\* C25: one initializer.  Of two processes that run init_vault side by side
\* on a deployment that never started (neither found a row of unseal keys),
\* at most one calls sys.initialize and at most one persists a row; the
\* other, once its run is over, has returned holding the keys of the row.
C25_SingleInitializer ==
  \A p \in Procs : \A q \in Procs \ {p} :
    (~proc[p].found /\ ~proc[q].found)
    => /\ ~(Made(p, "initialize") /\ Made(q, "initialize"))
       /\ ~(Made(p, "insert") /\ Made(q, "insert"))
       /\ (Made(p, "insert") /\ Made(q, "query") /\ proc[q].pc \in {"idle", "returned", "raised"})
          => /\ proc[q].pc # "raised"
             /\ proc[q].keys = boot.row.ident

\* the place of the broker on the way UNINITIALIZED, INITIALIZED_SEALED,
\* UNSEALED, AUTH_METHOD_ENABLED
Phase(b) == IF ~b.init THEN 0 ELSE IF b.sealed THEN 1 ELSE IF ~b.approle THEN 2 ELSE 3

\* the broker in reach, initialized, unsealed, its auth method enabled, the
\* row holding its keys
Healthy(b) ==
  b.up /\ b.init /\ ~b.sealed /\ b.approle /\ b.row = UnsealJson(b.ident)

LastCall(p) == proc[p].calls[Len(proc[p].calls)]

\* C26: bootstrap ordering.  Every step of a run of init_vault leaves the
\* broker where it was or further on its way; sys.initialize is called only
\* on a broker that is not initialized, the unseal keys are submitted only
\* to an initialized and sealed broker, the auth method is enabled only on
\* an initialized and unsealed one.  A run that returns leaves the broker
\* initialized, unsealed, with the auth method enabled and the row holding
\* the keys of its present identity; on a healthy broker no step fails,
\* initializes, inserts or submits keys, and the broker and the row stay
\* as they are.
C26_BootstrapOrdering ==
  [][(proc'[1].pc # proc[1].pc /\ proc'[1].pc # "idle")
     => /\ Phase(boot') >= Phase(boot)
        /\ LastCall(1)' = "initialize" => ~boot.init
        /\ LastCall(1)' = "submit_unseal_keys" => (boot.init /\ boot.sealed)
        /\ LastCall(1)' = "enable_auth_method" => (boot.init /\ ~boot.sealed)
        /\ proc'[1].pc = "returned" => Healthy(boot')
        /\ Healthy(boot)
           => /\ proc'[1].pc # "raised"
              /\ [boot' EXCEPT !.initialize = 0] = [boot EXCEPT !.initialize = 0]
              /\ LastCall(1)' \notin {"initialize", "insert", "insert_rejected",
                                      "submit_unseal_keys"}]_vars

\* a run on the healthy broker an earlier run initialized has returned
C26_Witness ==
  /\ proc[1].pc = "returned"
  /\ proc[1].calls = <<"query", "is_initialized", "is_sealed", "enable_auth_method">>
  /\ boot.gen = 1 /\ Healthy(boot)

\* C27: root token confinement.  On a Vault facade of a project whose
\* credentials the broker accepts, when create_project_space or
\* remove_project_space is over, returned or raised, the token of the
\* facade's client, which the get_* and set_* calls that follow are made
\* with, is the AppRole token.
C27_RootTokenConfined ==
  [][(/\ ops' # ops
      /\ ret'.op \in {"create_project_space", "remove_project_space"}
      /\ driver = "vault" /\ bound \in Projects /\ ret'.t = bound
      /\ Login(fac.auth, bound, roles) = "approle"
      /\ fac.token # "root")
     => fac'.token = "approle"]_vars

\* what get_secrets of the live facade would do
WouldGetSecrets ==
  IF driver = "vault" THEN VaultGet(fac, heap, bound, "secrets")
  ELSE BaseGet(heap, bound, "secrets")

\* C28: the administration tenant has no hidden store.  On a facade of the
\* administration tenant get_hidden_secrets() returns the map get_secrets()
\* would return, and set_hidden_secrets(m) leaves m in the visible bucket
\* and the hidden bucket or mount as it was.
C28_AdminHiddenIsVisible ==
  [][(ops' # ops /\ bound = Admin /\ ~ret'.err)
     => /\ ret'.op = "get_hidden_secrets"
           => (~WouldGetSecrets.err
               /\ heap'[Caller].v = WouldGetSecrets.heap[Caller].v)
        /\ ret'.op = "set_hidden_secrets"
           => /\ Stored(Admin, "secrets")' = heap'[Caller].v
              /\ Stored(Admin, "hidden_secrets")' = Stored(Admin, "hidden_secrets")]_vars

\* C29: both rows or neither.  On the database driver every tenant has, in
\* every state, a failed commit of create_project_space or
\* remove_project_space behind it or not, its key row and its data row or
\* neither of them.
C29_BothRowsOrNeither ==
  driver = "database" => \A t \in Tenants : keys[t].present <=> blobs[t].present

\* C30: no lost update.  When of two facades of one tenant, in two
\* processes, one has run set_secrets(a) and the other set_hidden_secrets(b)
\* side by side, the blob stored for the tenant holds a as its visible and b
\* as its hidden bucket.
C30_BothUpdatesKept ==
  \A p \in Procs : \A q \in Procs \ {p} :
    (/\ proc[p].pc = "done" /\ proc[q].pc = "done"
     /\ proc[p].tenant = proc[q].tenant
     /\ proc[p].kind = "secrets" /\ proc[q].kind = "hidden_secrets")
    => /\ Stored(proc[p].tenant, "secrets") = proc[p].arg
       /\ Stored(proc[p].tenant, "hidden_secrets") = proc[q].arg

====
